---- MODULE Spec2Model ----
(***************************************************************************)
(* Model of the Mimir agent runtime: the tool registry and its execution   *)
(* guard (tools/registry.py), the mode manager (utils/mode_manager.py),    *)
(* the rate limiter (utils/rate_limiter.py) and the conversation manager   *)
(* (conversation/manager.py) with the request paths that call it           *)
(* (web/handlers.py, main.py).                                             *)
(*                                                                         *)
(* The program is single-process cooperative I/O: code between two awaits  *)
(* runs atomically, every await that reaches the network or the database   *)
(* is a point where other tasks run.  One action of the model is one such  *)
(* atomic stretch of one task.                                             *)
(*                                                                         *)
(* Strings are sequences of lexical tokens ("Error", ":", ...), so that    *)
(* str.startswith is a prefix test the model computes.                     *)
(***************************************************************************)
EXTENDS Integers, Sequences, FiniteSets, TLC

(***************************************************************************)
(* Bounds of the model                                                     *)
(***************************************************************************)
\* number of ProcessMessage calls that arrive (call id = arrival order)
MaxCalls == 2
\* number of tool calls one LLM response may carry
MaxToolCalls == 1
\* responses of the provider that request tool calls, over all calls
MaxToolTurns == 2
\* number of callers that call ToolRegistry.execute directly
MaxExecCallers == 2
\* number of Execute calls the direct callers start in total
MaxExecutes == 3
\* number of clock advances
MaxTicks == 2
\* seconds the clock advances in one step
TickSeconds == 3600
\* seconds the clock of the mode manager advances in one step
ModeTickSeconds == 300
\* number of clock advances of the mode manager
MaxModeTicks == 4
\* invocations of the mode-change callback that are kept
MaxModeCallbacks == 3
\* seconds the clock of the rate limiter advances in one step
LimiterTickSeconds == 1800
\* number of clock advances of the rate limiter
MaxLimiterTicks == 4
\* operations recorded in one queue of the rate limiter
MaxRecorded == 3
\* operations recorded in one queue by the sequential caller of the registry
MaxGuardRecorded == 2
\* on_event registrations made at startup
MaxRegistrations == 2
\* events the controller sends over one run of the bridge
MaxEvents == 2
\* inbound Telegram events
MaxTelegramEvents == 2
\* send_command calls over one run of the bridge
MaxCommands == 2
\* connection cycles of one run of the bridge
MaxConnects == 4
\* ConversationManager(max_tool_iterations=...), default 10
max_tool_iterations == 2
\* ConversationManager(max_history=...), default 50
max_history == 4
\* messages in the history that get_history is applied to
MaxHistoryMessages == 2
\* rows of the audit table that load_history_from_audit reads
MaxAuditRows == 3
\* events of a provider stream
MaxStreamEvents == 3
\* connection attempts of run()
MaxBridgeAttempts == 3
\* event frames the controller sends
MaxBridgeEvents == 2
\* stop() calls
MaxStops == 2
\* tool calls in one response of the batch specification
MaxBatch == 2
\* tasks that write to the database through the repository
MaxDbWriters == 2
\* INSERTs on the connection, over all tasks
MaxDbInserts == 3
\* RateLimiter(deletions_per_hour=...), default 5
deletions_per_hour == 1
\* RateLimiter(modifications_per_hour=...), default 20
modifications_per_hour == 1

(***************************************************************************)
(* Program constants                                                       *)
(***************************************************************************)
window_seconds == 3600
\* HomeAssistantWebSocket._max_reconnect_delay, seconds
max_reconnect_delay == 60
\* HomeAssistantWebSocket._reconnect_delay at construction, seconds
initial_reconnect_delay == 1
yolo_duration_minutes == 10

None == "None"
\* None where a str is expected (strings are token sequences)
NoneStr == <<None>>
\* None where a timestamp is expected
NoTime == 0 - 1

(***************************************************************************)
(* Strings                                                                 *)
(***************************************************************************)
\* str.startswith(prefix)
StartsWith(s, prefix) ==
    /\ Len(s) >= Len(prefix)
    /\ SubSeq(s, 1, Len(prefix)) = prefix

\* `word in s` for a word that is one token
Mentions(s, word) == \E i \in 1..Len(s) : s[i] = word

\* the sentinel prefix "Error:"
ErrorPrefix == <<"Error", ":">>

\* bool(s) of a str
Truthy(s) == s # NoneStr /\ s # <<>>

(***************************************************************************)
(* Mode manager (utils/mode_manager.py)                                    *)
(***************************************************************************)
OperatingMode == {"chat", "normal", "yolo"}

TOOL_CATEGORIES ==
    [get_entities |-> "read_only",
     get_entity_state |-> "read_only",
     get_automations |-> "read_only",
     get_automation_config |-> "read_only",
     get_scripts |-> "read_only",
     get_script_config |-> "read_only",
     get_scenes |-> "read_only",
     get_scene_config |-> "read_only",
     get_helpers |-> "read_only",
     get_services |-> "read_only",
     get_error_log |-> "read_only",
     get_logbook |-> "read_only",
     recall_memories |-> "read_only",
     web_search |-> "read_only",
     ha_docs_search |-> "read_only",
     hacs_search |-> "read_only",
     call_service |-> "write",
     create_automation |-> "write",
     update_automation |-> "write",
     create_script |-> "write",
     update_script |-> "write",
     create_scene |-> "write",
     update_scene |-> "write",
     create_helper |-> "write",
     store_memory |-> "write",
     rename_entity |-> "write",
     assign_entity_area |-> "write",
     assign_entity_labels |-> "write",
     delete_automation |-> "destructive",
     delete_script |-> "destructive",
     delete_scene |-> "destructive",
     delete_helper |-> "destructive",
     forget_memory |-> "destructive"]

get_tool_category_destructive_only(tool_name) ==
    IF tool_name = "delete_automation" THEN "destructive" ELSE "read_only"

\* TOOL_CATEGORIES.get(tool_name, ToolCategory.WRITE)
get_tool_category(tool_name) ==
    IF tool_name \in DOMAIN TOOL_CATEGORIES
    THEN TOOL_CATEGORIES[tool_name]
    ELSE "write"

is_yolo_expired_strict(activated_at, t) ==
    IF activated_at = NoTime
    THEN TRUE
    ELSE (t - activated_at) > yolo_duration_minutes * 60

\* ModeManager._is_yolo_expired
is_yolo_expired(activated_at, t) ==
    IF activated_at = NoTime
    THEN TRUE
    ELSE (t - activated_at) >= yolo_duration_minutes * 60

current_mode_not_stored(mm, t) ==
    mm

\* ModeManager.current_mode: the mode state after the read
current_mode(mm, t) ==
    IF mm.mode = "yolo" /\ is_yolo_expired(mm.yolo_activated_at, t)
    THEN [mode |-> "normal", yolo_activated_at |-> NoTime]
    ELSE mm

ChatModeMessage(tool_name) ==
    <<"I'm in ", "Chat mode", " and cannot execute '", tool_name,
      "'. Switch to Normal mode ('enable normal mode') or YOLO mode ('enable yolo mode') if you want me to make changes.">>

check_tool_allowed_chat_blocks_destructive_only(tool_name, mode) ==
    LET category == get_tool_category(tool_name) IN
    IF category = "read_only"
    THEN [allowed |-> TRUE, message |-> <<>>]
    ELSE IF mode = "chat" /\ category = "destructive"
    THEN [allowed |-> FALSE, message |-> ChatModeMessage(tool_name)]
    ELSE [allowed |-> TRUE, message |-> <<>>]

\* ModeManager.check_tool_allowed on the mode just read
check_tool_allowed(tool_name, mode) ==
    LET category == get_tool_category(tool_name) IN
    IF category = "read_only"
    THEN [allowed |-> TRUE, message |-> <<>>]
    ELSE IF mode = "chat"
    THEN [allowed |-> FALSE, message |-> ChatModeMessage(tool_name)]
    ELSE [allowed |-> TRUE, message |-> <<>>]

\* ModeManager.set_mode: the mode state after the call
set_mode(mode, t) ==
    [mode |-> mode,
     yolo_activated_at |-> IF mode = "yolo" THEN t ELSE NoTime]

\* ModeManager.current_mode, lines 124-125: the arguments the mode-change
\* callback is called with during the read
current_mode_callbacks(mm, t) ==
    IF mm.mode = "yolo" /\ is_yolo_expired(mm.yolo_activated_at, t)
    THEN <<"normal">>
    ELSE <<>>

\* ModeManager.set_mode, lines 191-192: the arguments the mode-change
\* callback is called with during the call
set_mode_callbacks(old_mode, mode) ==
    IF old_mode # mode THEN <<mode>> ELSE <<>>

(***************************************************************************)
(* Rate limiter (utils/rate_limiter.py)                                    *)
(***************************************************************************)
TOOL_OPERATION_TYPES ==
    [delete_automation |-> "deletion",
     delete_script |-> "deletion",
     delete_scene |-> "deletion",
     delete_helper |-> "deletion",
     forget_memory |-> "deletion",
     create_automation |-> "modification",
     update_automation |-> "modification",
     create_script |-> "modification",
     update_script |-> "modification",
     create_scene |-> "modification",
     update_scene |-> "modification",
     create_helper |-> "modification",
     store_memory |-> "modification",
     call_service |-> "modification"]

\* TOOL_OPERATION_TYPES.get(tool_name)
get_operation_type(tool_name) ==
    IF tool_name \in DOMAIN TOOL_OPERATION_TYPES
    THEN TOOL_OPERATION_TYPES[tool_name]
    ELSE None

RECURSIVE cleanup_old_entries(_, _)
\* RateLimiter._cleanup_old_entries
cleanup_old_entries(times, t) ==
    IF times # <<>> /\ times[1] < t - window_seconds
    THEN cleanup_old_entries(Tail(times), t)
    ELSE times

OperationCap(operation_type) ==
    IF operation_type = "deletion" THEN deletions_per_hour ELSE modifications_per_hour

RateLimitMessage(operation_type, current_count) ==
    IF operation_type = "deletion"
    THEN <<"Rate limit", " exceeded: ", ToString(current_count), "/", ToString(deletions_per_hour),
           " deletions in the last hour. Please wait before deleting more items.">>
    ELSE <<"Rate limit", " exceeded: ", ToString(current_count), "/", ToString(modifications_per_hour),
           " modifications in the last hour. Please wait before making more changes.">>

check_allowed_above_cap(operation_type, rl, t) ==
    LET times == cleanup_old_entries(rl[operation_type], t)
        current_count == Len(times)
        cleaned == [rl EXCEPT ![operation_type] = times]
    IN  IF current_count > OperationCap(operation_type)
        THEN [allowed |-> FALSE, message |-> RateLimitMessage(operation_type, current_count),
              rl |-> cleaned]
        ELSE [allowed |-> TRUE, message |-> <<>>, rl |-> cleaned]

\* RateLimiter.check_allowed: the verdict and the queues after the trim
check_allowed(operation_type, rl, t) ==
    LET times == cleanup_old_entries(rl[operation_type], t)
        current_count == Len(times)
        cleaned == [rl EXCEPT ![operation_type] = times]
    IN  IF current_count >= OperationCap(operation_type)
        THEN [allowed |-> FALSE, message |-> RateLimitMessage(operation_type, current_count),
              rl |-> cleaned]
        ELSE [allowed |-> TRUE, message |-> <<>>, rl |-> cleaned]

\* RateLimiter.record_operation
record_operation(operation_type, rl, t) ==
    [rl EXCEPT ![operation_type] = Append(@, t)]

\* the entries of a queue that lie within the window ending at t
InWindow(times, t) == {i \in 1..Len(times) : times[i] >= t - window_seconds}

\* the entries of a queue that carry the timestamp t
CountAt(times, t) == Cardinality({i \in 1..Len(times) : times[i] = t})

(***************************************************************************)
(* Tools (tools/ha_tools.py)                                               *)
(*                                                                         *)
(* arguments: what the caller passed for the tool's required parameter:    *)
(*   "missing" (absent or empty), "non_string" (a number), "valid".        *)
(* api: how the controller answers the tool's API calls.                   *)
(* A tool body yields [raised, value, api_called]: the returned string, or *)
(* the message of the exception it raised.                                 *)
(***************************************************************************)
\* the tools whose bodies are modelled
RegisteredTools == {"get_entity_state", "create_automation", "delete_automation"}
ToolNames == RegisteredTools \cup {"open_garage"}
\* the names of all the tools MimirAgent registers (_register_tools and the
\* memory tools of _setup_memory)
AppTools ==
    {"web_search", "search_ha_docs", "search_hacs",
     "get_entities", "get_entity_state", "call_service", "get_services",
     "get_error_log", "get_logbook",
     "get_automations", "get_automation_config", "create_automation",
     "update_automation", "delete_automation",
     "get_scripts", "get_script_config", "create_script", "update_script",
     "delete_script",
     "get_scenes", "get_scene_config", "create_scene", "update_scene",
     "delete_scene",
     "get_helpers", "create_helper", "delete_helper",
     "rename_entity", "assign_entity_area", "assign_entity_labels",
     "get_areas", "get_labels",
     "store_memory", "recall_memories", "forget_memory"}
ToolArguments == {"missing", "non_string", "valid"}
ApiOutcomes == {"ok", "no_internal_id", "http_error", "conn_error"}
\* the (tool, arguments) pairs a caller or the LLM asks for
ToolCallInputs ==
    {<<"get_entity_state", "valid">>,
     <<"create_automation", "valid">>, <<"create_automation", "missing">>,
     <<"delete_automation", "valid">>, <<"delete_automation", "missing">>,
     <<"delete_automation", "non_string">>,
     <<"open_garage", "valid">>}

\* str(HomeAssistantAPIError(status, message))
HomeAssistantAPIError(api) ==
    IF api = "http_error" THEN <<"HA API Error (", "500", "): ", "Internal Server Error">>
    ELSE <<"HA API Error (", "0", "): ", "Cannot connect to host">>

ApiFailures == {"http_error", "conn_error"}

\* what a tool's execute gives: the string it returns or the exception it
\* raises; api: the outcome of the controller API call it made, None if none
Returned(value, api) ==
    [raised |-> FALSE, value |-> value, api_called |-> api # None,
     api_failed |-> api \in ApiFailures]
Raised(message) ==
    [raised |-> TRUE, value |-> message, api_called |-> FALSE, api_failed |-> FALSE]

\* what the body of a registered tool can do: return a text, return a
\* string that begins with "Error:", or raise
ToolOutcomes ==
    {Returned(<<"Done", " successfully.">>, "ok"),
     Returned(<<"Error", ":", " a required parameter is missing.">>, None),
     Raised(<<"'int' object has no attribute 'startswith'">>)}

\* GetEntityStateTool.execute
GetEntityStateTool(arguments, api) ==
    IF arguments = "missing"
    THEN Returned(<<"Error", ":", " entity_id is required.">>, None)
    ELSE IF api \in {"http_error", "conn_error"}
    THEN Returned(<<"Error", " getting entity state: ">> \o HomeAssistantAPIError(api), api)
    ELSE Returned(<<"Entity", ": light.kitchen\nState: on\n">>, api)

\* CreateAutomationTool.execute
CreateAutomationTool(arguments, api) ==
    IF arguments = "missing"
    THEN Returned(<<"Error", ":", " automation_id, alias, trigger, and action are required.">>, None)
    ELSE IF api \in {"http_error", "conn_error"}
    THEN Returned(<<"Error", " creating automation: ">> \o HomeAssistantAPIError(api), api)
    ELSE Returned(<<"Automation", " 'Motion' (automation.motion) created successfully!">>, api)

\* DeleteAutomationTool.execute
DeleteAutomationTool(arguments, api) ==
    IF arguments = "missing"
    THEN Returned(<<"Error", ":", " entity_id is required.">>, None)
    ELSE IF arguments = "non_string"
    THEN Raised(<<"'int' object has no attribute 'startswith'">>)
    ELSE IF api \in {"http_error", "conn_error"}
    THEN Returned(<<"Error", " deleting automation: ">> \o HomeAssistantAPIError(api), api)
    ELSE IF api = "no_internal_id"
    THEN Returned(<<"Error", ":", " Automation 'automation.motion' does not have an internal ID.">>, api)
    ELSE Returned(<<"Automation", " 'automation.motion' deleted successfully.">>, api)

\* BaseTool.validate_and_execute of the tool registered under tool_name
validate_and_execute(tool_name, arguments, api) ==
    CASE tool_name = "get_entity_state" -> GetEntityStateTool(arguments, api)
      [] tool_name = "create_automation" -> CreateAutomationTool(arguments, api)
      [] tool_name = "delete_automation" -> DeleteAutomationTool(arguments, api)

(***************************************************************************)
(* Tool registry and execution guard (tools/registry.py)                   *)
(***************************************************************************)
\* main.py binds the mode manager, the rate limiter and the callback
ModeManagerBound == TRUE
RateLimiterBound == TRUE
ExecutionCallbackBound == TRUE

\* ToolRegistry.has
has(tool_name) == tool_name \in AppTools

ToolNotFoundError(tool_name) == <<"Tool not found: ", tool_name>>

execute_guard_unknown_returns(tool_name, mm, rl, enabled, t) ==
    LET mm1 == IF ModeManagerBound THEN current_mode(mm, t) ELSE mm
        gate == IF ModeManagerBound
                THEN check_tool_allowed(tool_name, mm1.mode)
                ELSE [allowed |-> TRUE, message |-> <<>>]
        operation_type == get_operation_type(tool_name)
        limited == operation_type # None /\ RateLimiterBound /\ enabled
        limit == IF limited
                 THEN check_allowed(operation_type, rl, t)
                 ELSE [allowed |-> TRUE, message |-> <<>>, rl |-> rl]
    IN  IF ~has(tool_name)
        THEN [outcome |-> "blocked",
              result |-> ErrorPrefix \o <<" Unknown tool '", tool_name, "'">>,
              mm |-> mm, rl |-> rl]
        ELSE IF ~gate.allowed
        THEN [outcome |-> "blocked", result |-> ErrorPrefix \o <<" ">> \o gate.message,
              mm |-> mm1, rl |-> rl]
        ELSE IF ~limit.allowed
        THEN [outcome |-> "limited", result |-> ErrorPrefix \o <<" ">> \o limit.message,
              mm |-> mm1, rl |-> limit.rl]
        ELSE [outcome |-> "running", result |-> NoneStr, mm |-> mm1, rl |-> limit.rl]

\* ToolRegistry.execute up to the call of the tool (lines 213-234):
\* get, mode gate, rate-limit gate.  outcome: "raised" (ToolNotFoundError),
\* "blocked" (mode), "limited" (rate limit) or "running" (the tool is called).
execute_guard(tool_name, mm, rl, enabled, t) ==
    LET mm1 == IF ModeManagerBound THEN current_mode(mm, t) ELSE mm
        gate == IF ModeManagerBound
                THEN check_tool_allowed(tool_name, mm1.mode)
                ELSE [allowed |-> TRUE, message |-> <<>>]
        operation_type == get_operation_type(tool_name)
        limited == operation_type # None /\ RateLimiterBound /\ enabled
        limit == IF limited
                 THEN check_allowed(operation_type, rl, t)
                 ELSE [allowed |-> TRUE, message |-> <<>>, rl |-> rl]
    IN  IF ~has(tool_name)
        THEN [outcome |-> "raised", result |-> ToolNotFoundError(tool_name), mm |-> mm, rl |-> rl]
        ELSE IF ~gate.allowed
        THEN [outcome |-> "blocked", result |-> ErrorPrefix \o <<" ">> \o gate.message,
              mm |-> mm1, rl |-> rl]
        ELSE IF ~limit.allowed
        THEN [outcome |-> "limited", result |-> ErrorPrefix \o <<" ">> \o limit.message,
              mm |-> mm1, rl |-> limit.rl]
        ELSE [outcome |-> "running", result |-> NoneStr, mm |-> mm1, rl |-> limit.rl]

\* success = not result.startswith("Error:") if result else True
tool_success(value) ==
    IF Truthy(value) THEN ~StartsWith(value, ErrorPrefix) ELSE TRUE

\* ToolRegistry.execute from the tool's return to the callback (lines 236-252):
\* the result, the success flag, and the rate-limiter queues after recording.
execute_tool_done(tool_name, out, rl, t) ==
    LET operation_type == get_operation_type(tool_name)
        success == IF out.raised THEN FALSE ELSE tool_success(out.value)
        record == success /\ operation_type # None /\ RateLimiterBound
    IN  [result |-> IF out.raised
                    THEN <<"Error", " executing ", tool_name, ": ">> \o out.value
                    ELSE out.value,
         success |-> success,
         error_msg |-> IF out.raised THEN out.value ELSE NoneStr,
         recorded |-> record,
         rl |-> IF record THEN record_operation(operation_type, rl, t) ELSE rl]

\* return result or f"Error executing {name}: No result returned"
execute_return(tool_name, result) ==
    IF Truthy(result)
    THEN result
    ELSE <<"Error", " executing ", tool_name, ": No result returned">>


(***************************************************************************)
(* Streaming socket of the controller (ha/websocket.py)                    *)
(***************************************************************************)
\* the event types the controller sends, and the catch-all key
EventTypes == {"telegram_text", "telegram_command"}
CatchAll == "*"
HandlerKeys == EventTypes \cup {CatchAll}
\* the handler functions passed to on_event
Handlers == {"h1", "h2"}

\* self._handlers = {}
NoHandlers == [event_type \in {} |-> <<>>]

\* self._handlers.get(event_type, [])
handlers_get(handlers, event_type) ==
    IF event_type \in DOMAIN handlers THEN handlers[event_type] ELSE <<>>

\* HomeAssistantWebSocket.on_event
on_event(handlers, event_type, handler) ==
    [key \in DOMAIN handlers \cup {event_type} |->
        IF key = event_type
        THEN Append(handlers_get(handlers, event_type), handler)
        ELSE handlers[key]]

\* HomeAssistantWebSocket._dispatch_event: the handlers it calls, in order, and
\* _handlers afterwards.  get returns the list stored under event_type itself
\* when there is one, and extend appends the catch-all handlers to that list.
dispatch_event(handlers, event_type) ==
    LET called == handlers_get(handlers, event_type) \o handlers_get(handlers, CatchAll)
    IN  [called |-> called,
         handlers |-> IF event_type \in DOMAIN handlers
                      THEN [handlers EXCEPT ![event_type] = called]
                      ELSE handlers]

\* what the controller does in one connection attempt
ConnectOutcomes ==
    {"refused", "non_text", "malformed", "wrong_type",
     "auth_non_text", "auth_malformed", "auth_invalid", "auth_ok"}
\* how a listening connection ends
LossKinds == {"closed", "error", "malformed"}

connect_trusts_any_reply(outcome) ==
    IF outcome \in {"auth_invalid", "auth_ok"} THEN "True"
    ELSE IF outcome \in {"malformed", "auth_malformed"} THEN "raised"
    ELSE "False"

\* HomeAssistantWebSocket.connect: True, False, or "raised" when an exception
\* other than aiohttp.ClientError leaves it (json.loads on a malformed frame)
connect(outcome) ==
    CASE outcome = "refused" -> "False"
      [] outcome = "non_text" -> "False"
      [] outcome = "malformed" -> "raised"
      [] outcome = "wrong_type" -> "False"
      [] outcome = "auth_non_text" -> "False"
      [] outcome = "auth_malformed" -> "raised"
      [] outcome = "auth_invalid" -> "False"
      [] outcome = "auth_ok" -> "True"

\* HomeAssistantWebSocket.connect: the frames it receives ("in ...") and
\* sends ("out ...") on the new socket, in order
handshake(outcome) ==
    LET sent == <<"in auth_required", "out auth">>
    IN  CASE outcome = "refused" -> <<>>
          [] outcome = "non_text" -> <<"in binary">>
          [] outcome = "malformed" -> <<"in malformed">>
          [] outcome = "wrong_type" -> <<"in event">>
          [] outcome = "auth_non_text" -> sent \o <<"in binary">>
          [] outcome = "auth_malformed" -> sent \o <<"in malformed">>
          [] outcome = "auth_invalid" -> sent \o <<"in auth_invalid">>
          [] outcome = "auth_ok" -> sent \o <<"in auth_ok">>

\* run(): the two subscribe_events calls after connect() returned True
subscribe_frames ==
    <<"out subscribe_events", "in result", "out subscribe_events", "in result">>

\* what the controller does about a command: answers its id with success or
\* with failure, sends no frame with its id within 30 seconds, or the
\* connection ends
CommandAnswers == {"success", "failure", "timeout", "lost"}
\* who gets the frames of the socket while send_command waits: no other task
\* reads ("alone"); with the listen loop of run() waiting in receive on the
\* same socket the library refuses the second receive ("refused"), or hands
\* the frame to one of the two readers ("listen_loop", "command")
Readers == {"alone", "refused", "listen_loop", "command"}

NoCommand ==
    [id |-> 0, sent |-> FALSE, answer |-> None, reader |-> None, returned |-> None]

\* HomeAssistantWebSocket.send_command: the id it allocated, whether it sent
\* the command, and what it returns: "result", "None", or "raised"
send_command(socket, message_id, answer, reader) ==
    IF socket # "open"
    THEN [id |-> 0, sent |-> FALSE, answer |-> answer, reader |-> reader,
          returned |-> "None"]
    ELSE [id |-> message_id + 1, sent |-> TRUE, answer |-> answer, reader |-> reader,
          returned |->
              IF reader = "refused" THEN "raised"
              ELSE IF reader = "listen_loop" /\ answer \in {"success", "failure"}
              THEN "None"
              ELSE IF answer = "success" THEN "result"
              ELSE "None"]

Min(a, b) == IF a < b THEN a ELSE b

\* run(): _reconnect_delay after the sleep that follows a failed cycle; the
\* except Exception branch sleeps and leaves it as it is
backoff_after_sleep(delay, raised) ==
    IF raised THEN delay ELSE Min(delay * 2, max_reconnect_delay)

(***************************************************************************)
(* Telegram events (telegram/handler.py, ha/types.py, config.py)           *)
(***************************************************************************)
\* no TelegramHandler constructed yet
NoOwner == 0 - 1

validate_telegram_owner_id_unchecked(v) == [raised |-> FALSE, value |-> v]

\* MimirConfig.validate_telegram_owner_id (BaseSettings validates the default
\* 0 as well)
validate_telegram_owner_id(v) ==
    IF v = 0 THEN [raised |-> TRUE, value |-> v] ELSE [raised |-> FALSE, value |-> v]

\* the data of the events the controller forwards: with or without user_id
TelegramEventData ==
    {[chat_id |-> 5]}
    \cup {[chat_id |-> 5, user_id |-> user_id] : user_id \in {0, 7, 8}}

\* TelegramMessage.from_event_data: user_id=data.get("user_id", 0)
from_event_data(data) ==
    [chat_id |-> data.chat_id,
     user_id |-> IF "user_id" \in DOMAIN data THEN data.user_id ELSE 0]

\* TelegramHandler._on_telegram_event with a message handler set: whether the
\* handler is called and whether send_message is; response: what the handler
\* returns ("None", "reply") or "raised"
on_telegram_event(owner_id, data, response) ==
    LET message == from_event_data(data)
    IN  IF message.user_id # owner_id
        THEN [data |-> data, called |-> FALSE, sent |-> FALSE]
        ELSE [data |-> data, called |-> TRUE, sent |-> response = "reply"]

(***************************************************************************)
(* State                                                                   *)
(***************************************************************************)
VARIABLES
    now,                    \* time.time(), in seconds
    mode_manager,           \* ModeManager: _current_mode, _yolo_activated_at
    rate_limiter,           \* RateLimiter: _deletion_times, _modification_times
    rate_limiting_enabled,  \* ToolRegistry._rate_limiting_enabled
    exec,                   \* the Execute call of each direct caller
    executes_started,       \* Execute calls the direct callers have started
    messages,               \* ConversationManager._messages
    current_source,         \* ConversationManager._current_source
    current_user_id,        \* ConversationManager._current_user_id
    audit_logs,             \* the audit_logs table, in insertion order
    call,                   \* the ProcessMessage calls, by arrival order
    mode_callbacks,         \* what a mode-change callback has been called with
    mode_result,            \* what the last call into the ModeManager returned
    limiter_result,         \* what the last check_allowed of the RateLimiter returned
    guard_result,           \* the last execute of a sequential caller of the registry
    ws_handlers,            \* HomeAssistantWebSocket._handlers
    ws_registered,          \* the lists the on_event calls alone have built
    ws_event,               \* the event_type of the last event dispatched
    ws_delivered,           \* the handler calls of the last dispatch, in order
    ws_events,              \* events dispatched so far
    ws_pc,                  \* where run() is: "connecting" or "listening"
    ws_reconnect_delay,     \* HomeAssistantWebSocket._reconnect_delay
    ws_failures,            \* connection cycles failed since the last auth_ok
    ws_connects,            \* connection cycles started so far
    ws_wire,                \* the frames received and sent on the current socket
    ws_socket,              \* self._ws: "none", "open" or "closed"
    ws_message_id,          \* HomeAssistantWebSocket._message_id
    ws_command,             \* the last send_command call and what it gave
    tg_owner_id,            \* TelegramHandler._owner_id; NoOwner before startup
    tg_log,                 \* per inbound event: its data, handler call, reply sent
    history_result,         \* the last get_history or load_history_from_audit call
    db_audit_logs,          \* table audit_logs of the connection: a row per INSERT
    db_tool_executions,     \* table tool_executions of the connection
    db_last_insert_rowid,   \* last_insert_rowid() of the connection
    db_task,                \* the repository call of each task that writes
    lc_pc,                  \* where main() and MimirAgent.start() are
    lc_attempts,            \* checks of _connect_ha_with_retry that failed
    lc_signal,              \* MimirAgent._shutdown_event is set
    lc_running,             \* HomeAssistantWebSocket._running
    lc_bridge,              \* ws_task: where run() of the bridge is, or how it ended
    lc_closed,              \* the awaits of the cleanup that have completed, in order
    lc_exit_code,           \* the exit code of the process; NoExit while it runs
    stream_result,          \* the last stream call: adapter, provider events, chunks yielded
    br_pc,                  \* what run() of the bridge awaits, or "returned"
    br_running,             \* HomeAssistantWebSocket._running
    br_sockets,             \* the sockets ws_connect has opened: "open" or "closed"
    br_ws,                  \* self._ws: an index of br_sockets, 0 for None
    br_confirmed,           \* event types whose subscription the bridge saw confirmed
    br_subscribed,          \* event types the controller sends on this connection
    br_attempts,            \* connection attempts started so far
    br_events,              \* per event frame of the controller: where run() was, delivered
    br_stops,               \* stop() calls so far
    br_at_stop     \* br_attempts and br_pc when stop() was first called

registry_vars == <<mode_manager, rate_limiter, rate_limiting_enabled>>
direct_vars == <<exec, executes_started>>
manager_vars == <<messages, current_source, current_user_id, audit_logs, call>>
mode_unit_vars == <<mode_callbacks, mode_result>>
limiter_unit_vars == <<limiter_result>>
guard_unit_vars == <<guard_result>>
dispatch_vars == <<ws_handlers, ws_registered, ws_event, ws_delivered, ws_events>>
connect_vars == <<ws_pc, ws_reconnect_delay, ws_failures, ws_connects, ws_wire,
                  ws_socket, ws_message_id>>
command_vars == <<ws_command>>
socket_unit_vars == <<dispatch_vars, connect_vars, command_vars>>
telegram_unit_vars == <<tg_owner_id, tg_log>>
history_unit_vars == <<history_result>>
db_unit_vars == <<db_audit_logs, db_tool_executions, db_last_insert_rowid, db_task>>
lifecycle_unit_vars == <<lc_pc, lc_attempts, lc_signal, lc_running, lc_bridge, lc_closed,
                         lc_exit_code>>
stream_unit_vars == <<stream_result>>
bridge_unit_vars == <<br_pc, br_running, br_sockets, br_ws, br_confirmed, br_subscribed, br_attempts, br_events, br_stops, br_at_stop>>
later_unit_vars == <<telegram_unit_vars, history_unit_vars, db_unit_vars,
                     lifecycle_unit_vars,
                     stream_unit_vars,
                     bridge_unit_vars>>
unit_vars == <<mode_unit_vars, limiter_unit_vars, guard_unit_vars, socket_unit_vars,
               later_unit_vars>>
other_than_mode_unit == <<limiter_unit_vars, guard_unit_vars, socket_unit_vars,
                          later_unit_vars>>
other_than_limiter_unit == <<mode_unit_vars, guard_unit_vars, socket_unit_vars,
                             later_unit_vars>>
other_than_guard_unit == <<mode_unit_vars, limiter_unit_vars, socket_unit_vars,
                           later_unit_vars>>
other_than_socket_unit == <<mode_unit_vars, limiter_unit_vars, guard_unit_vars,
                            later_unit_vars>>
first_unit_vars == <<mode_unit_vars, limiter_unit_vars, guard_unit_vars, socket_unit_vars>>
other_than_telegram_unit == <<first_unit_vars, history_unit_vars, db_unit_vars,
                              lifecycle_unit_vars,
        stream_unit_vars,
        bridge_unit_vars>>
other_than_history_unit == <<first_unit_vars, telegram_unit_vars, db_unit_vars,
                             lifecycle_unit_vars,
        stream_unit_vars,
        bridge_unit_vars>>
other_than_db_unit == <<first_unit_vars, telegram_unit_vars, history_unit_vars,
                        lifecycle_unit_vars,
        stream_unit_vars,
        bridge_unit_vars>>
other_than_lifecycle_unit == <<first_unit_vars, telegram_unit_vars, history_unit_vars,
                               db_unit_vars,
        stream_unit_vars,
        bridge_unit_vars>>
other_than_stream_unit == <<first_unit_vars, telegram_unit_vars,
        history_unit_vars,
        db_unit_vars,
        lifecycle_unit_vars,
        bridge_unit_vars>>
other_than_bridge_unit == <<first_unit_vars, telegram_unit_vars,
        history_unit_vars,
        db_unit_vars,
        lifecycle_unit_vars,
        stream_unit_vars>>
vars == <<now, registry_vars, direct_vars, manager_vars, unit_vars>>

ExecCallers == 1..MaxExecCallers
MaxTime == MaxTicks * TickSeconds

\* One call of ToolRegistry.execute.  pc: where the call is ("tool": awaiting
\* the tool, "callback": awaiting the callback, "returned", "raised").
\* callbacks, tool_ran, api_called, recorded count what the call has done.
IdleFrame ==
    [pc |-> "idle", name |-> None, arguments |-> None, outcome |-> None,
     result |-> NoneStr, success |-> FALSE, error_msg |-> NoneStr,
     ret |-> NoneStr, callbacks |-> 0, tool_ran |-> FALSE,
     api_called |-> FALSE, api_failed |-> FALSE, recorded |-> FALSE]

\* ToolRegistry.execute, lines 213-237: the frame when the call first
\* suspends, returns or raises
frame_call(tool_name, arguments, guard) ==
    [IdleFrame EXCEPT
        !.name = tool_name,
        !.arguments = arguments,
        !.outcome = guard.outcome,
        !.pc = CASE guard.outcome = "raised" -> "raised"
                 [] guard.outcome = "running" -> "tool"
                 [] OTHER -> "returned",
        !.error_msg = IF guard.outcome = "raised" THEN guard.result ELSE NoneStr,
        !.ret = IF guard.outcome \in {"blocked", "limited"} THEN guard.result ELSE NoneStr,
        !.tool_ran = (guard.outcome = "running")]

\* ToolRegistry.execute, lines 237-257: the frame when the tool has returned
\* or raised and the callback has been called
frame_tool_done(fr, out, done) ==
    [fr EXCEPT
        !.result = done.result,
        !.success = done.success,
        !.error_msg = done.error_msg,
        !.recorded = done.recorded,
        !.api_called = out.api_called,
        !.api_failed = out.api_failed,
        !.callbacks = IF ExecutionCallbackBound THEN @ + 1 ELSE @,
        !.pc = IF ExecutionCallbackBound THEN "callback" ELSE "returned",
        !.ret = IF ExecutionCallbackBound THEN NoneStr
                ELSE execute_return(fr.name, done.result)]

\* ToolRegistry.execute, lines 265-268: the callback is over, return
frame_callback_done(fr) ==
    [fr EXCEPT !.pc = "returned", !.ret = execute_return(fr.name, fr.result)]


(***************************************************************************)
(* Conversation manager (conversation/manager.py): data                    *)
(***************************************************************************)
Calls == 1..MaxCalls

\* the user contexts of the two request paths: get_user_context (web) and
\* UserContext.from_telegram_message (the owner)
UserContexts ==
    {[user_id |-> "u1", source |-> "web"],
     [user_id |-> "owner", source |-> "telegram"]}

UserTexts == {"hello", "what mode", "enable chat mode"}

\* the patterns of ModeManager that occur in message.lower().strip()
Occurrences(text) ==
    CASE text = "hello" -> {}
      [] text = "what mode" -> {"what mode"}
      [] text = "enable chat mode" -> {"enable chat mode", "chat mode"}

NoId == <<>>

\* Message.user; by: the user_id of the call that appended the message
UserMessage(text, by) ==
    [role |-> "user", content |-> <<text>>, tool_calls |-> <<>>,
     tool_call_id |-> NoId, is_error |-> FALSE, by |-> by]

\* Message.assistant
AssistantMessage(content, tool_calls, by) ==
    [role |-> "assistant", content |-> content, tool_calls |-> tool_calls,
     tool_call_id |-> NoId, is_error |-> FALSE, by |-> by]

\* Message.tool_result (its role is Role.USER, its block a tool result)
ToolResultMessage(tool_call_id, content, is_error, by) ==
    [role |-> "user", content |-> content, tool_calls |-> <<>>,
     tool_call_id |-> tool_call_id, is_error |-> is_error, by |-> by]

\* the tool calls the provider requests: a read, a deletion, a deletion with
\* an entity_id that is no string, a tool that is not registered
LLMToolCalls ==
    {<<"get_entity_state", "valid">>,
     <<"delete_automation", "valid">>,
     <<"delete_automation", "non_string">>,
     <<"open_garage", "valid">>}

\* what llm.complete yields: a ProviderError, or a Response
ToolCallSeqs == UNION {[1..n -> LLMToolCalls] : n \in 1..MaxToolCalls}
LLMResponses ==
    {[error |-> TRUE, content |-> NoneStr, tool_calls |-> <<>>],
     [error |-> FALSE, content |-> <<"Done", ".">>, tool_calls |-> <<>>],
     [error |-> FALSE, content |-> NoneStr, tool_calls |-> <<>>]}
    \cup {[error |-> FALSE, content |-> NoneStr, tool_calls |-> tcs] : tcs \in ToolCallSeqs}

\* Response.has_tool_calls
has_tool_calls(response) == Len(response.tool_calls) > 0

FallbackResponse ==
    <<"I apologize, but I couldn't generate a response. Please try again.">>
LimitResponse ==
    <<"I've been working on this for a while and hit a limit. ",
      "Here's what I found so far - let me know if you need me to continue.">>

\* main.py binds the audit repository
AuditBound == TRUE
\* whether a write to the audit store succeeds; the store of this model
\* accepts every write (BOOLEAN admits the writes that fail)
AuditWriteOutcomes == {TRUE}

\* One ProcessMessage call.  pc: the await the call is suspended at, or how
\* it ended ("done": returned reply, "raised": an exception left it).
IdleCall ==
    [pc |-> "idle", user_id |-> None, source |-> None, text |-> None,
     iterations |-> 0, llm_calls |-> 0, sent_by |-> {},
     tool_turns |-> 0, tool_calls |-> <<>>, results |-> <<>>,
     frame |-> IdleFrame, executed |-> <<>>,
     reply |-> NoneStr, audit_failed |-> FALSE, provider_failed |-> FALSE]

\* AuditRepository.log_message: the table after the INSERT
log_message(logs, source, message_type, content, user_id, t, ok) ==
    IF AuditBound /\ ok
    THEN Append(logs, [message_type |-> message_type, content |-> content,
                       source |-> source, user_id |-> user_id, call |-> t])
    ELSE logs

\* ConversationManager._trim_history
trim_history(msgs) ==
    IF Len(msgs) > max_history
    THEN SubSeq(msgs, Len(msgs) - max_history + 1, Len(msgs))
    ELSE msgs

\* the text get_history takes from a message: the string, or the texts of
\* the blocks of a list (the block of a tool result has text None)
message_text(msg) ==
    IF msg.tool_call_id # NoId \/ msg.content = NoneStr THEN <<>> ELSE msg.content

\* ConversationManager.get_history
RECURSIVE get_history(_)
get_history(msgs) ==
    IF msgs = <<>>
    THEN <<>>
    ELSE LET msg == Head(msgs)
             content == message_text(msg)
         IN  (IF /\ \/ msg.role = "user"
                    \/ msg.role = "assistant" /\ Len(msg.tool_calls) = 0
                 /\ Truthy(content)
              THEN <<[role |-> msg.role, content |-> content]>>
              ELSE <<>>) \o get_history(Tail(msgs))

\* the histories get_history is applied to: a user message, the assistant's
\* text, an assistant message without text, one with tool calls only, one
\* with text and tool calls, a tool result
HistoryMessageKinds ==
    {UserMessage("hello", "u1"),
     AssistantMessage(<<"Done", ".">>, <<>>, "u1"),
     AssistantMessage(<<>>, <<>>, "u1"),
     AssistantMessage(<<>>, <<<<"get_entity_state", "valid">>>>, "u1"),
     AssistantMessage(<<"Let me check", ".">>, <<<<"get_entity_state", "valid">>>>, "u1"),
     ToolResultMessage(<<"id", 1>>, <<"State", ":", " on">>, FALSE, "u1")}
Histories == UNION {[1..n -> HistoryMessageKinds] : n \in 0..MaxHistoryMessages}

\* the rows of audit_logs that load_history_from_audit reads; the table is
\* kept in insertion order, which is the order of the timestamps
AuditRowKinds ==
    {[message_type |-> "user", content |-> <<"hello">>,
      source |-> "web", user_id |-> "u1", call |-> 0],
     [message_type |-> "assistant", content |-> <<"Done", ".">>,
      source |-> "web", user_id |-> "u1", call |-> 0],
     [message_type |-> "user", content |-> <<"what mode">>,
      source |-> "telegram", user_id |-> "owner", call |-> 0],
     [message_type |-> "tool", content |-> <<"get_entity_state">>,
      source |-> "web", user_id |-> "u1", call |-> 0]}
AuditTables == UNION {[1..n -> AuditRowKinds] : n \in 0..MaxAuditRows}

Reversed(s) == [i \in 1..Len(s) |-> s[Len(s) + 1 - i]]
LastOf(s, n) == IF Len(s) > n THEN SubSeq(s, Len(s) - n + 1, Len(s)) ELSE s

\* AuditRepository.get_recent_logs(limit): ORDER BY timestamp DESC LIMIT ?
get_recent_logs(logs, limit) == Reversed(LastOf(logs, limit))

\* Message.user(log.content) and Message.assistant(content=log.content)
LoadedMessage(log) ==
    [role |-> log.message_type, content |-> log.content, tool_calls |-> <<>>,
     tool_call_id |-> NoId, is_error |-> FALSE, by |-> log.user_id]

\* ConversationManager.load_history_from_audit(self, limit); kwargs: the
\* names of the keyword arguments of the call besides limit (a name that is
\* no parameter is a TypeError); audit: whether an audit repository is bound
load_history_from_audit(msgs, logs, audit, kwargs, limit) ==
    IF kwargs # {}
    THEN [raised |-> TRUE, loaded |-> 0, msgs |-> msgs]
    ELSE IF ~audit
    THEN [raised |-> FALSE, loaded |-> 0, msgs |-> msgs]
    ELSE LET logs_read == get_recent_logs(logs, limit * 2)
             chronological == Reversed(logs_read)
             kept == SelectSeq(chronological,
                               LAMBDA log : log.message_type \in {"user", "assistant"})
             messages_to_load == LastOf([i \in 1..Len(kept) |-> LoadedMessage(kept[i])],
                                        limit)
         IN  [raised |-> FALSE, loaded |-> Len(messages_to_load),
              msgs |-> messages_to_load]

\* nothing asked of the history yet
NoHistoryResult ==
    [op |-> None, raised |-> FALSE, history |-> <<>>, loaded |-> 0,
     user_id |-> None, limit |-> 0, audit |-> FALSE, kwargs |-> {},
     before |-> <<>>]

\* the tasks that call AuditRepository.log_message or log_tool_execution
DbWriters == 1..MaxDbWriters
DbCalls == {"log_message", "log_tool_execution"}

\* a repository call of a task; pc: the statement on the connection that the
\* call has had executed last; created: the id of the row its INSERT made
IdleDbTask == [pc |-> "idle", op |-> None, created |-> 0, returned |-> 0]

\* INTEGER PRIMARY KEY AUTOINCREMENT: one more than the largest id the table had
autoincrement(table) == Len(table) + 1

\* _connect_ha_with_retry(max_retries=5)
max_retries == 5

\* the process has not ended
NoExit == 0 - 1

\* the awaits of the finally block of MimirAgent.start, in program order
Cleanup ==
    <<"notification_manager.stop", "web_server.stop", "ha_ws.stop", "ha_api.close",
      "llm.close", "database.close", "ws_task.cancel">>

\* HomeAssistantWebSocket.run as the task ws_task: "connecting" (in connect),
\* "listening" (in _listen_loop), "sleeping" (in the sleep before a reconnect)
BridgeRunning == {"connecting", "listening", "sleeping"}
BridgeEvents == {"connected", "failed", "lost", "slept"}

\* where run() is after event; once stop() has cleared _running and closed
\* the socket and the session, whatever run() awaits ends and run() returns
run_after(bridge, running, event) ==
    IF ~running THEN "returned"
    ELSE CASE bridge = "connecting" /\ event = "connected" -> "listening"
           [] bridge = "connecting" /\ event = "failed" -> "sleeping"
           [] bridge = "listening" /\ event = "lost" -> "sleeping"
           [] bridge = "sleeping" /\ event = "slept" -> "connecting"
           [] OTHER -> bridge

\* ResponseChunk (llm/types.py); response: the Response of a final chunk
NoResponse == [stop_reason |-> None, content |-> <<>>, tool_calls |-> 0]
ResponseChunk(delta_content, delta_tool_call, is_final, response) ==
    [delta_content |-> delta_content, delta_tool_call |-> delta_tool_call,
     is_final |-> is_final, response |-> response]

\* the events of client.messages.stream that AnthropicProvider.stream
\* tells apart; a stream may end with or without message_stop
AnthropicEvents ==
    {"text_delta", "tool_use_start", "input_json_delta", "content_block_stop",
     "message_stop"}

\* AnthropicProvider.stream: the chunks yielded for events; current_tool_call:
\* a tool_use block is open; text, tools: what the final message holds so far
RECURSIVE anthropic_stream(_, _, _, _)
anthropic_stream(events, current_tool_call, text, tools) ==
    IF events = <<>>
    THEN <<>>
    ELSE LET event == Head(events)
             rest == Tail(events)
         IN  CASE event = "tool_use_start" ->
                      anthropic_stream(rest, TRUE, text, tools)
               [] event = "text_delta" ->
                      <<ResponseChunk(<<"text">>, FALSE, FALSE, NoResponse)>>
                      \o anthropic_stream(rest, current_tool_call, text \o <<"text">>, tools)
               [] event = "input_json_delta" ->
                      anthropic_stream(rest, current_tool_call, text, tools)
               [] event = "content_block_stop" ->
                      IF current_tool_call
                      THEN <<ResponseChunk(NoneStr, TRUE, FALSE, NoResponse)>>
                           \o anthropic_stream(rest, FALSE, text, tools + 1)
                      ELSE anthropic_stream(rest, current_tool_call, text, tools)
               [] event = "message_stop" ->
                      <<ResponseChunk(NoneStr, FALSE, TRUE,
                                      [stop_reason |-> IF tools > 0 THEN "tool_use"
                                                       ELSE "end_turn",
                                       content |-> text, tool_calls |-> tools])>>
                      \o anthropic_stream(rest, current_tool_call, text, tools)

\* the chunks of client.chat.completions.create(stream=True) that
\* OpenAIProvider.stream tells apart
OpenAIChunks == {"no_choices", "content", "tool_call", "finish_stop", "finish_tool_calls"}

\* the loop of OpenAIProvider.stream over the provider's chunks
RECURSIVE openai_deltas(_)
openai_deltas(chunks) ==
    IF chunks = <<>>
    THEN <<>>
    ELSE (IF Head(chunks) = "content"
          THEN <<ResponseChunk(<<"text">>, FALSE, FALSE, NoResponse)>>
          ELSE <<>>) \o openai_deltas(Tail(chunks))

\* OpenAIProvider.stream: the content chunks, then one chunk for the tool
\* call accumulated (the deltas of this model all have index 0), then the
\* final chunk
openai_stream(chunks) ==
    LET has_tool == \E i \in 1..Len(chunks) : chunks[i] = "tool_call"
        finishes == SelectSeq(chunks, LAMBDA c : c \in {"finish_stop", "finish_tool_calls"})
        finish_reason == IF finishes = <<>> THEN "finish_stop" ELSE finishes[Len(finishes)]
        deltas == openai_deltas(chunks)
    IN  deltas
        \o (IF has_tool THEN <<ResponseChunk(NoneStr, TRUE, FALSE, NoResponse)>> ELSE <<>>)
        \o <<ResponseChunk(NoneStr, FALSE, TRUE,
                           [stop_reason |-> IF finish_reason = "finish_tool_calls"
                                            THEN "tool_use" ELSE "end_turn",
                            content |-> [i \in 1..Len(deltas) |-> "text"],
                            tool_calls |-> IF has_tool THEN 1 ELSE 0])>>

\* no stream call yet
NoStreamResult == [adapter |-> None, events |-> <<>>, chunks |-> <<>>]

\* the two subscriptions of run(), in the order run() asks for them
MessageEvents == <<"telegram_text", "telegram_command">>

\* run() lines 227-232 after connect() gave False or _listen_loop returned:
\* `if not self._running: break`, else the sleep before the next attempt
after_cycle(running) == IF running THEN "sleeping" ELSE "returned"

\* run() after a sleep is over: `while self._running`
after_sleep(running) == IF running THEN "connect" ELSE "returned"

\* stop() that leaves _running set
stop_keeps_running(running, sockets, ws) ==
    [running |-> running,
     sockets |-> IF ws # 0 /\ sockets[ws] = "open"
                 THEN [sockets EXCEPT ![ws] = "closed"] ELSE sockets,
     ws |-> IF ws # 0 /\ sockets[ws] = "open" THEN 0 ELSE ws]

\* HomeAssistantWebSocket.stop: clear _running; close self._ws if it is
\* there and not closed, and forget it; close the session
stop(running, sockets, ws) ==
    [running |-> FALSE,
     sockets |-> IF ws # 0 /\ sockets[ws] = "open"
                 THEN [sockets EXCEPT ![ws] = "closed"] ELSE sockets,
     ws |-> IF ws # 0 /\ sockets[ws] = "open" THEN 0 ELSE ws]

\* the socket the peer has closed: aiohttp closes it on the CLOSE frame
peer_closed(sockets, ws) ==
    IF ws # 0 THEN [sockets EXCEPT ![ws] = "closed"] ELSE sockets

\* frames connect() may read while it waits for auth_required and for the
\* answer to auth; frames subscribe_events may read; frames _listen_loop reads
HandshakeFrames == {"expected", "wrong_type", "non_text", "malformed", "closed"}
SubscribeFrames ==
    {"result_ok", "result_refused", "event", "malformed", "closed", "send_failed"}
ListenFrames == {"event", "malformed", "closed"}

\* ModeManager.is_mode_query
is_mode_query(text) ==
    Occurrences(text) \cap {"what mode", "which mode", "current mode",
                            "what's my mode", "what is my mode", "mode status"} # {}

\* ModeManager.parse_mode_command
parse_mode_command(text) ==
    IF Occurrences(text) \cap {"enable chat mode", "switch to chat mode",
                               "activate chat mode", "chat mode",
                               "read only mode", "read-only mode"} # {}
    THEN "chat"
    ELSE IF Occurrences(text) \cap {"enable normal mode", "switch to normal mode",
                                    "activate normal mode", "normal mode",
                                    "disable yolo mode", "disable yolo",
                                    "exit yolo mode"} # {}
    THEN "normal"
    ELSE IF Occurrences(text) \cap {"enable yolo mode", "switch to yolo mode",
                                    "activate yolo mode", "yolo mode", "yolo"} # {}
    THEN "yolo"
    ELSE None

\* the message ModeManager.set_mode returns
SetModeMessage(mode) ==
    CASE mode = "yolo" -> <<"YOLO mode", " activated for ", ToString(yolo_duration_minutes),
                            " minutes. All actions will be auto-approved. Be careful!">>
      [] mode = "chat" -> <<"Chat mode", " activated. I can analyze and recommend, but I won't make any changes until you switch to Normal or YOLO mode.">>
      [] mode = "normal" -> <<"Normal mode", " activated. I'll ask for confirmation before making significant changes.">>

\* ModeManager.format_mode_response on the mode just read
format_mode_response(mode) ==
    <<"I'm currently in **",
      CASE mode = "chat" -> "CHAT" [] mode = "normal" -> "NORMAL" [] mode = "yolo" -> "YOLO",
      "** mode.">>

\* ConversationManager._check_mode_command: the reply (NoneStr when the
\* message is no mode command) and the mode manager after the call
check_mode_command(text, mm, t) ==
    IF ~ModeManagerBound
    THEN [response |-> NoneStr, mm |-> mm]
    ELSE IF is_mode_query(text)
    THEN [response |-> format_mode_response(current_mode(mm, t).mode),
          mm |-> current_mode(mm, t)]
    ELSE IF parse_mode_command(text) # None
    THEN [response |-> SetModeMessage(parse_mode_command(text)),
          mm |-> set_mode(parse_mode_command(text), t)]
    ELSE [response |-> NoneStr, mm |-> mm]

\* one finished call of ToolRegistry.execute: outcome as execute_guard gives
\* it; success, recorded as the try block left them; mode: what the mode
\* gate read; enabled: _rate_limiting_enabled; in_window: the operations of
\* each queue inside the window when the call started; added: the entries
\* the call appended to each queue
NoGuardResult ==
    [tool_name |-> None, outcome |-> None, raised |-> FALSE, success |-> FALSE,
     recorded |-> FALSE, result |-> NoneStr, mode |-> None, enabled |-> TRUE,
     in_window |-> [deletion |-> 0, modification |-> 0],
     added |-> [deletion |-> 0, modification |-> 0]]

\* what check_allowed returned; dropped: the entries its cleanup removed
NoLimiterResult ==
    [operation_type |-> None, allowed |-> TRUE, message |-> <<>>, dropped |-> 0]

\* what a call into the ModeManager returned, and what it found
ModeResult(op, tool_name, mode, expired, allowed, message) ==
    [op |-> op, tool_name |-> tool_name, mode |-> mode, expired |-> expired,
     allowed |-> allowed, message |-> message]

NoModeResult == ModeResult(None, None, None, FALSE, TRUE, <<>>)

InitExceptHistory ==
    /\ now = 0
    /\ \E mode \in OperatingMode :
        /\ mode_manager = set_mode(mode, 0)
        /\ rate_limiting_enabled = (mode # "yolo")
    /\ rate_limiter = [deletion |-> <<>>, modification |-> <<>>]
    /\ exec = [c \in ExecCallers |-> IdleFrame]
    /\ executes_started = 0
    /\ current_source = "unknown"
    /\ current_user_id = None
    /\ call = [t \in Calls |-> IdleCall]
    /\ mode_callbacks = <<>>
    /\ mode_result = NoModeResult
    /\ limiter_result = NoLimiterResult
    /\ guard_result = NoGuardResult
    /\ ws_handlers = NoHandlers
    /\ ws_registered = NoHandlers
    /\ ws_event = None
    /\ ws_delivered = <<>>
    /\ ws_events = 0
    /\ ws_pc = "connecting"
    /\ ws_reconnect_delay = initial_reconnect_delay
    /\ ws_failures = 0
    /\ ws_connects = 0
    /\ ws_wire = <<>>
    /\ ws_socket = "none"
    /\ ws_message_id = 0
    /\ ws_command = NoCommand
    /\ tg_owner_id = NoOwner
    /\ tg_log = <<>>
    /\ history_result = NoHistoryResult
    /\ db_audit_logs = <<>>
    /\ db_tool_executions = <<>>
    /\ db_last_insert_rowid = 0
    /\ db_task = [w \in DbWriters |-> IdleDbTask]
    /\ lc_pc = "main"
    /\ lc_attempts = 0
    /\ lc_signal = FALSE
    /\ lc_running = FALSE
    /\ lc_bridge = "not_started"
    /\ lc_closed = <<>>
    /\ lc_exit_code = NoExit
    /\ stream_result = NoStreamResult
    /\ br_pc = "connect"
    /\ br_running = TRUE
    /\ br_sockets = <<>>
    /\ br_ws = 0
    /\ br_confirmed = {}
    /\ br_subscribed = {}
    /\ br_attempts = 1
    /\ br_events = <<>>
    /\ br_stops = 0
    /\ br_at_stop = [attempts |-> 0, pc |-> "none"]

Init ==
    /\ InitExceptHistory
    /\ messages = <<>>
    /\ audit_logs = <<>>

(***************************************************************************)
(* The registry on its own: callers call ToolRegistry.execute directly     *)
(***************************************************************************)
\* a caller calls registry.execute(tool_name, **arguments)
Execute(c, tool_name, arguments) ==
    /\ exec[c].pc \in {"idle", "returned", "raised"}
    /\ \A b \in ExecCallers : b < c => exec[b].pc \in {"tool", "callback"}
    /\ executes_started < MaxExecutes
    /\ LET guard == execute_guard(tool_name, mode_manager, rate_limiter,
                                  rate_limiting_enabled, now)
       IN  /\ exec' = [exec EXCEPT ![c] = frame_call(tool_name, arguments, guard)]
           /\ mode_manager' = guard.mm
           /\ rate_limiter' = guard.rl
    /\ executes_started' = executes_started + 1
    /\ UNCHANGED unit_vars
    /\ UNCHANGED <<now, rate_limiting_enabled, manager_vars>>

\* the tool the caller awaits returns or raises
ToolReturns(c, api) ==
    /\ exec[c].pc = "tool"
    /\ LET out == validate_and_execute(exec[c].name, exec[c].arguments, api)
           done == execute_tool_done(exec[c].name, out, rate_limiter, now)
       IN  /\ exec' = [exec EXCEPT ![c] = frame_tool_done(exec[c], out, done)]
           /\ rate_limiter' = done.rl
    /\ UNCHANGED unit_vars
    /\ UNCHANGED <<now, mode_manager, rate_limiting_enabled, executes_started, manager_vars>>

\* the callback the caller awaits returns, or fails and is swallowed
CallbackReturns(c) ==
    /\ exec[c].pc = "callback"
    /\ exec' = [exec EXCEPT ![c] = frame_callback_done(exec[c])]
    /\ UNCHANGED unit_vars
    /\ UNCHANGED <<now, registry_vars, executes_started, manager_vars>>

\* ModeManager.set_mode is called (a mode command, the operating_mode setter)
SetMode(mode) ==
    /\ mode_manager' = set_mode(mode, now)
    /\ UNCHANGED unit_vars
    /\ UNCHANGED <<now, rate_limiter, rate_limiting_enabled, direct_vars, manager_vars>>

\* time passes
Tick ==
    /\ now < MaxTime
    /\ now' = now + TickSeconds
    /\ UNCHANGED unit_vars
    /\ UNCHANGED <<registry_vars, direct_vars, manager_vars>>

NextRegistry ==
    \/ \E c \in ExecCallers, tc \in ToolCallInputs : Execute(c, tc[1], tc[2])
    \/ \E c \in ExecCallers, api \in ApiOutcomes : ToolReturns(c, api)
    \/ \E c \in ExecCallers : CallbackReturns(c)
    \/ \E mode \in OperatingMode : SetMode(mode)
    \/ Tick

SpecRegistry == Init /\ [][NextRegistry]_vars

(***************************************************************************)
(* Conversation manager: ProcessMessage                                    *)
(* A call is a task of the event loop: an action is the stretch of         *)
(* process_message between two awaits.  S is what the stretch works on:    *)
(* the call (c), the mode manager (mm), the rate limiter (rl), the history *)
(* (msgs) and the audit table (logs).  src, uid are the scratch slots      *)
(* _current_source, _current_user_id as the stretch reads them.            *)
(***************************************************************************)
State(t) ==
    [c |-> call[t], mm |-> mode_manager, rl |-> rate_limiter,
     msgs |-> messages, logs |-> audit_logs]

loop_continues_inclusive(iterations) == iterations <= max_tool_iterations

\* while iterations < self._max_tool_iterations
loop_continues(iterations) == iterations < max_tool_iterations

\* _log_assistant_response without its except clause: the exception of the
\* audit write leaves process_message
log_assistant_response_uncaught(t, S, content, src, uid, ok) ==
    [S EXCEPT !.c.pc = IF ok THEN "log_assistant" ELSE "raised",
              !.c.reply = IF ok THEN content ELSE NoneStr,
              !.c.audit_failed = @ \/ ~ok,
              !.logs = log_message(@, src, "assistant", content, uid, t, ok)]

\* ConversationManager._log_assistant_response, up to its await
log_assistant_response(t, S, content, src, uid, ok) ==
    [S EXCEPT !.c.pc = "log_assistant",
              !.c.reply = content,
              !.c.audit_failed = @ \/ ~ok,
              !.logs = log_message(@, src, "assistant", content, uid, t, ok)]

\* the head of the tool loop: call the LLM with the history as it is now,
\* or leave the loop with the limit response
loop_next(t, S, src, uid, ok) ==
    IF loop_continues(S.c.iterations)
    THEN [S EXCEPT !.c.pc = "llm",
                   !.c.iterations = @ + 1,
                   !.c.llm_calls = @ + 1,
                   !.c.sent_by = {S.msgs[i].by : i \in DOMAIN S.msgs}]
    ELSE log_assistant_response(t, S, LimitResponse, src, uid, ok)

\* _execute_tool_calls that appends no result message for a tool call
\* that ended in an error
tool_result_skips_errors(S, result, is_error) ==
    [S EXCEPT !.c.results = IF is_error THEN @
                            ELSE Append(@, ToolResultMessage(Head(S.c.tool_calls).id,
                                                             result, is_error,
                                                             S.c.user_id)),
              !.c.tool_calls = Tail(@),
              !.c.executed = Append(@, [id |-> Head(S.c.tool_calls).id,
                                        name |-> Head(S.c.tool_calls).name,
                                        is_error |-> is_error, ret |-> result])]

\* _execute_tool_calls, lines 358-371: the result message of the tool call
\* at the head of the batch; executed keeps what its execution did
tool_result(S, result, is_error) ==
    LET tool_call == Head(S.c.tool_calls)
        fr == S.c.frame
    IN  [S EXCEPT
            !.c.results = Append(@, ToolResultMessage(tool_call.id, result, is_error,
                                                      S.c.user_id)),
            !.c.tool_calls = Tail(@),
            !.c.executed = Append(@,
                [id |-> tool_call.id,
                 name |-> tool_call.name,
                 is_error |-> is_error,
                 raised |-> fr.tool_ran /\ fr.error_msg # NoneStr,
                 returned |-> IF fr.tool_ran /\ fr.error_msg = NoneStr
                              THEN fr.result ELSE NoneStr,
                 ret |-> result,
                 denied |-> ~fr.tool_ran,
                 api_failed |-> fr.api_failed,
                 callbacks |-> fr.callbacks,
                 success |-> fr.success,
                 recorded |-> fr.recorded])]

\* _execute_tool_calls from the head of the remaining batch up to the next
\* await of a tool, and after the batch the extension of the history and
\* the next turn of the loop
RECURSIVE execute_tool_calls(_, _, _, _, _, _)
execute_tool_calls(t, S, src, uid, ok, tnow) ==
    IF S.c.tool_calls = <<>>
    THEN loop_next(t, [S EXCEPT !.msgs = @ \o S.c.results, !.c.results = <<>>],
                   src, uid, ok)
    ELSE LET tool_call == Head(S.c.tool_calls)
             guard == execute_guard(tool_call.name, S.mm, S.rl,
                                    rate_limiting_enabled, tnow)
             fr == frame_call(tool_call.name, tool_call.arguments, guard)
             unknown == ErrorPrefix \o <<" Unknown tool '", tool_call.name, "'">>
             S1 == [S EXCEPT !.c.frame = fr, !.mm = guard.mm, !.rl = guard.rl]
         IN  IF ~has(tool_call.name)
             THEN execute_tool_calls(t,
                      tool_result([S EXCEPT !.c.frame = IdleFrame], unknown,
                                  StartsWith(unknown, ErrorPrefix)),
                      src, uid, ok, tnow)
             ELSE IF fr.pc = "tool"
             THEN [S1 EXCEPT !.c.pc = "tool"]
             ELSE IF fr.pc = "raised"
             THEN execute_tool_calls(t,
                      tool_result(S1, <<"Error", " executing ", tool_call.name, ": ">>
                                          \o fr.error_msg, TRUE),
                      src, uid, ok, tnow)
             ELSE execute_tool_calls(t,
                      tool_result(S1, fr.ret, StartsWith(fr.ret, ErrorPrefix)),
                      src, uid, ok, tnow)

\* registry.execute has returned to _execute_tool_calls
execute_returned(t, S, src, uid, ok, tnow) ==
    execute_tool_calls(t, tool_result(S, S.c.frame.ret,
                                      StartsWith(S.c.frame.ret, ErrorPrefix)),
                       src, uid, ok, tnow)

\* lines 457-496 from the return of llm.complete up to the next await
llm_returned(t, S, response, src, uid, ok, tnow) ==
    LET tool_calls == [i \in 1..Len(response.tool_calls) |->
                          [id |-> <<t, S.c.iterations, i>>,
                           name |-> response.tool_calls[i][1],
                           arguments |-> response.tool_calls[i][2]]]
    IN  IF response.error
        THEN [S EXCEPT !.c.pc = "raised", !.c.provider_failed = TRUE]
        ELSE IF has_tool_calls(response)
        THEN execute_tool_calls(t,
                 [S EXCEPT !.msgs = Append(@, AssistantMessage(response.content,
                                                  tool_calls, S.c.user_id)),
                           !.c.tool_calls = tool_calls,
                           !.c.results = <<>>,
                           !.c.tool_turns = @ + 1],
                 src, uid, ok, tnow)
        ELSE IF Truthy(response.content)
        THEN log_assistant_response(t,
                 [S EXCEPT !.msgs = Append(@, AssistantMessage(response.content,
                                                  <<>>, S.c.user_id))],
                 response.content, src, uid, ok)
        ELSE log_assistant_response(t, S, FallbackResponse, src, uid, ok)

\* registry.execute, lines 237-257, from the return of the tool up to the
\* next await
tool_returned(t, S, api, src, uid, ok, tnow) ==
    LET out == validate_and_execute(S.c.frame.name, S.c.frame.arguments, api)
        done == execute_tool_done(S.c.frame.name, out, S.rl, tnow)
        S1 == [S EXCEPT !.c.frame = frame_tool_done(@, out, done), !.rl = done.rl]
    IN  IF S1.c.frame.pc = "callback"
        THEN [S1 EXCEPT !.c.pc = "callback"]
        ELSE execute_returned(t, S1, src, uid, ok, tnow)

\* registry.execute, lines 265-268, from the return of the callback
callback_returned(t, S, src, uid, ok, tnow) ==
    execute_returned(t, [S EXCEPT !.c.frame = frame_callback_done(@)], src, uid, ok, tnow)

\* lines 396-438 of process_message, up to the first await
process_message(t, S, ctx, text, ok, tnow) ==
    LET mr == check_mode_command(text, S.mm, tnow)
        c == [IdleCall EXCEPT !.user_id = ctx.user_id, !.source = ctx.source,
                              !.text = text, !.audit_failed = ~ok]
        S1 == [S EXCEPT !.mm = mr.mm,
                        !.logs = log_message(@, ctx.source, "user", <<text>>,
                                             ctx.user_id, t, ok)]
    IN  IF Truthy(mr.response)
        THEN [S1 EXCEPT !.c = [c EXCEPT !.pc = "mode_log_user", !.reply = mr.response]]
        ELSE [S1 EXCEPT !.c = [c EXCEPT !.pc = "log_user"],
                        !.msgs = trim_history(Append(@, UserMessage(text, ctx.user_id)))]

Apply(t, S) ==
    /\ call' = [call EXCEPT ![t] = S.c]
    /\ mode_manager' = S.mm
    /\ rate_limiter' = S.rl
    /\ messages' = S.msgs
    /\ audit_logs' = S.logs

Ended == {"done", "raised"}

\* the responses with tool calls that the calls of ts have received
RECURSIVE ToolTurns(_)
ToolTurns(ts) ==
    IF ts = {} THEN 0
    ELSE LET t == CHOOSE x \in ts : TRUE
         IN  call[t].tool_turns + ToolTurns(ts \ {t})

\* a handler calls process_message(text, ctx): lines 396-438, up to the
\* await of the audit write of the user message.  Calls are numbered in
\* arrival order; the events of the bot are handled one after the other.
ProcessMessage(t, ctx, text, ok) ==
    /\ call[t].pc = "idle"
    /\ \A b \in Calls : b < t => call[b].pc # "idle"
    /\ ctx.source = "telegram" =>
           \A b \in Calls : call[b].source = "telegram" => call[b].pc \in Ended
    /\ current_source' = ctx.source
    /\ current_user_id' = ctx.user_id
    /\ Apply(t, process_message(t, State(t), ctx, text, ok, now))
    /\ UNCHANGED unit_vars
    /\ UNCHANGED <<now, rate_limiting_enabled, direct_vars>>

\* mode command, lines 408-422: the write of the user entry is over; if it
\* failed return the reply, otherwise write the assistant entry
ModeLogUserDone(t, ok) ==
    /\ call[t].pc = "mode_log_user"
    /\ IF call[t].audit_failed
       THEN /\ call' = [call EXCEPT ![t].pc = "done"]
            /\ UNCHANGED audit_logs
       ELSE /\ call' = [call EXCEPT ![t].pc = "mode_log_assistant",
                                    ![t].audit_failed = ~ok]
            /\ audit_logs' = log_message(audit_logs, current_source, "assistant",
                                         call[t].reply, current_user_id, t, ok)
    /\ UNCHANGED unit_vars
    /\ UNCHANGED <<now, registry_vars, direct_vars, messages, current_source,
                   current_user_id>>

\* mode command, lines 414-422: the write of the assistant entry is over
ModeLogAssistantDone(t) ==
    /\ call[t].pc = "mode_log_assistant"
    /\ call' = [call EXCEPT ![t].pc = "done"]
    /\ UNCHANGED unit_vars
    /\ UNCHANGED <<now, registry_vars, direct_vars, messages, current_source,
                   current_user_id, audit_logs>>

\* lines 439-461: the write of the user entry and the refresh of the memory
\* summary are over (the call changes nothing between these two awaits);
\* first turn of the loop
LogUserDone(t, ok) ==
    /\ call[t].pc = "log_user"
    /\ Apply(t, loop_next(t, State(t), current_source, current_user_id, ok))
    /\ UNCHANGED unit_vars
    /\ UNCHANGED <<now, rate_limiting_enabled, direct_vars, current_source,
                   current_user_id>>

\* lines 457-496: llm.complete raises a ProviderError or returns a response
LLMReturns(t, response, ok) ==
    /\ call[t].pc = "llm"
    /\ has_tool_calls(response) => ToolTurns(Calls) < MaxToolTurns
    /\ Apply(t, llm_returned(t, State(t), response, current_source, current_user_id,
                             ok, now))
    /\ UNCHANGED unit_vars
    /\ UNCHANGED <<now, rate_limiting_enabled, direct_vars, current_source,
                   current_user_id>>

\* registry.execute, lines 237-257: the tool the call awaits returns or raises
ToolDone(t, api, ok) ==
    /\ call[t].pc = "tool"
    /\ Apply(t, tool_returned(t, State(t), api, current_source, current_user_id, ok, now))
    /\ UNCHANGED unit_vars
    /\ UNCHANGED <<now, rate_limiting_enabled, direct_vars, current_source,
                   current_user_id>>

\* registry.execute, lines 265-268, and the rest of the batch: the callback
\* is over
CallbackDone(t, ok) ==
    /\ call[t].pc = "callback"
    /\ Apply(t, callback_returned(t, State(t), current_source, current_user_id, ok, now))
    /\ UNCHANGED unit_vars
    /\ UNCHANGED <<now, rate_limiting_enabled, direct_vars, current_source,
                   current_user_id>>

\* lines 489-505: the write of the assistant entry is over, return the reply
LogAssistantDone(t) ==
    /\ call[t].pc = "log_assistant"
    /\ call' = [call EXCEPT ![t].pc = "done"]
    /\ UNCHANGED unit_vars
    /\ UNCHANGED <<now, registry_vars, direct_vars, messages, current_source,
                   current_user_id, audit_logs>>

Next ==
    \/ \E t \in Calls, ctx \in UserContexts, text \in UserTexts,
          ok \in AuditWriteOutcomes : ProcessMessage(t, ctx, text, ok)
    \/ \E t \in Calls, ok \in AuditWriteOutcomes : ModeLogUserDone(t, ok)
    \/ \E t \in Calls : ModeLogAssistantDone(t)
    \/ \E t \in Calls, ok \in AuditWriteOutcomes : LogUserDone(t, ok)
    \/ \E t \in Calls, response \in LLMResponses, ok \in AuditWriteOutcomes :
          LLMReturns(t, response, ok)
    \/ \E t \in Calls, api \in ApiOutcomes, ok \in AuditWriteOutcomes :
          ToolDone(t, api, ok)
    \/ \E t \in Calls, ok \in AuditWriteOutcomes : CallbackDone(t, ok)
    \/ \E t \in Calls : LogAssistantDone(t)

Spec == Init /\ [][Next]_vars


(***************************************************************************)
(* The mode manager on its own, with a mode-change callback set            *)
(* (set_mode_change_callback): calls of set_mode, reads of current_mode,   *)
(* calls of check_tool_allowed, and the clock.  The application sets no    *)
(* callback, so its own actions leave mode_callbacks alone.                *)
(***************************************************************************)
\* mode_manager.set_mode(mode)
ModeSet(mode) ==
    /\ Len(mode_callbacks) < MaxModeCallbacks
    /\ mode_manager' = set_mode(mode, now)
    /\ mode_callbacks' = mode_callbacks \o set_mode_callbacks(mode_manager.mode, mode)
    /\ mode_result' = ModeResult("set_mode", None, mode, FALSE, TRUE, SetModeMessage(mode))
    /\ UNCHANGED other_than_mode_unit
    /\ UNCHANGED <<now, rate_limiter, rate_limiting_enabled, direct_vars, manager_vars>>

\* mode_manager.current_mode
ModeRead ==
    /\ Len(mode_callbacks) < MaxModeCallbacks
    /\ mode_manager' = current_mode(mode_manager, now)
    /\ mode_callbacks' = mode_callbacks \o current_mode_callbacks(mode_manager, now)
    /\ mode_result' = ModeResult("current_mode", None,
                                 current_mode(mode_manager, now).mode,
                                 current_mode_callbacks(mode_manager, now) # <<>>,
                                 TRUE, <<>>)
    /\ UNCHANGED other_than_mode_unit
    /\ UNCHANGED <<now, rate_limiter, rate_limiting_enabled, direct_vars, manager_vars>>

\* mode_manager.check_tool_allowed(tool_name)
ModeCheckTool(tool_name) ==
    /\ Len(mode_callbacks) < MaxModeCallbacks
    /\ LET mm == current_mode(mode_manager, now)
           gate == check_tool_allowed(tool_name, mm.mode)
       IN  /\ mode_manager' = mm
           /\ mode_callbacks' = mode_callbacks \o current_mode_callbacks(mode_manager, now)
           /\ mode_result' = ModeResult("check_tool_allowed", tool_name, mm.mode,
                                        current_mode_callbacks(mode_manager, now) # <<>>,
                                        gate.allowed, gate.message)
    /\ UNCHANGED other_than_mode_unit
    /\ UNCHANGED <<now, rate_limiter, rate_limiting_enabled, direct_vars, manager_vars>>

\* time passes
ModeClock ==
    /\ now < MaxModeTicks * ModeTickSeconds
    /\ now' = now + ModeTickSeconds
    /\ UNCHANGED <<registry_vars, direct_vars, manager_vars, unit_vars>>

NextMode ==
    \/ \E mode \in OperatingMode : ModeSet(mode)
    \/ ModeRead
    \/ \E tool_name \in ToolNames : ModeCheckTool(tool_name)
    \/ ModeClock

SpecMode == Init /\ [][NextMode]_vars

(***************************************************************************)
(* The rate limiter on its own: calls of check_allowed and                 *)
(* record_operation, and the clock                                         *)
(***************************************************************************)
OperationTypes == {"deletion", "modification"}

\* rate_limiter.check_allowed(operation_type)
LimiterCheck(operation_type) ==
    /\ LET limit == check_allowed(operation_type, rate_limiter, now)
       IN  /\ rate_limiter' = limit.rl
           /\ limiter_result' =
                  [operation_type |-> operation_type,
                   allowed |-> limit.allowed,
                   message |-> limit.message,
                   dropped |-> Len(rate_limiter[operation_type])
                                   - Len(limit.rl[operation_type])]
    /\ UNCHANGED <<now, mode_manager, rate_limiting_enabled, direct_vars, manager_vars>>
    /\ UNCHANGED other_than_limiter_unit

\* rate_limiter.record_operation(operation_type)
LimiterRecord(operation_type) ==
    /\ Len(rate_limiter[operation_type]) < MaxRecorded
    /\ rate_limiter' = record_operation(operation_type, rate_limiter, now)
    /\ UNCHANGED <<now, mode_manager, rate_limiting_enabled, direct_vars, manager_vars>>
    /\ UNCHANGED unit_vars

\* time passes
LimiterClock ==
    /\ now < MaxLimiterTicks * LimiterTickSeconds
    /\ now' = now + LimiterTickSeconds
    /\ UNCHANGED <<registry_vars, direct_vars, manager_vars, unit_vars>>

NextLimiter ==
    \/ \E operation_type \in OperationTypes : LimiterCheck(operation_type)
    \/ \E operation_type \in OperationTypes : LimiterRecord(operation_type)
    \/ LimiterClock

SpecLimiter == Init /\ [][NextLimiter]_vars

(***************************************************************************)
(* The registry under one sequential caller, holding the tools the         *)
(* application registers: each execute runs from the gates to the return   *)
(* before the next one starts                                              *)
(***************************************************************************)
\* await registry.execute(tool_name, ...), the tool's body doing out
GuardExecute(tool_name, out) ==
    /\ \A operation_type \in DOMAIN rate_limiter :
           Len(rate_limiter[operation_type]) < MaxGuardRecorded
    /\ LET guard == execute_guard(tool_name, mode_manager, rate_limiter,
                                  rate_limiting_enabled, now)
           ran == guard.outcome = "running"
           done == execute_tool_done(tool_name, out, guard.rl, now)
           rl == IF ran THEN done.rl ELSE guard.rl
       IN  /\ mode_manager' = guard.mm
           /\ rate_limiter' = rl
           /\ guard_result' =
                  [tool_name |-> tool_name,
                   outcome |-> guard.outcome,
                   raised |-> ran /\ out.raised,
                   success |-> ran /\ done.success,
                   recorded |-> ran /\ done.recorded,
                   result |-> IF ran
                              THEN execute_return(tool_name, done.result)
                              ELSE guard.result,
                   mode |-> guard.mm.mode,
                   enabled |-> rate_limiting_enabled,
                   in_window |->
                       [operation_type \in DOMAIN rate_limiter |->
                           Cardinality(InWindow(rate_limiter[operation_type], now))],
                   added |->
                       [operation_type \in DOMAIN rate_limiter |->
                           CountAt(rl[operation_type], now)
                               - CountAt(rate_limiter[operation_type], now)]]
    /\ UNCHANGED <<now, rate_limiting_enabled, direct_vars, manager_vars>>
    /\ UNCHANGED other_than_guard_unit

NextGuard ==
    \/ \E tool_name \in AppTools, out \in ToolOutcomes : GuardExecute(tool_name, out)
    \/ \E mode \in OperatingMode : SetMode(mode)

SpecGuard == Init /\ [][NextGuard]_vars

(***************************************************************************)
(* The bridge to the controller's socket: registrations at startup, then   *)
(* run(): connection cycles, and events while a connection is up           *)
(***************************************************************************)
\* ha_ws.on_event(event_type, handler), before run() starts
OnEvent(event_type, handler) ==
    /\ ws_connects = 0
    /\ \A key \in DOMAIN ws_registered : Len(ws_registered[key]) < MaxRegistrations
    /\ ws_handlers' = on_event(ws_handlers, event_type, handler)
    /\ ws_registered' = on_event(ws_registered, event_type, handler)
    /\ UNCHANGED <<ws_event, ws_delivered, ws_events, connect_vars, command_vars>>
    /\ UNCHANGED <<now, registry_vars, direct_vars, manager_vars, other_than_socket_unit>>

\* one pass of the while loop of run() that does not reach the listen loop,
\* or reaches it: connect, then sleep and the new delay
Connect(outcome) ==
    /\ ws_pc = "connecting"
    /\ ws_connects < MaxConnects
    /\ ws_connects' = ws_connects + 1
    /\ IF connect(outcome) = "True"
       THEN /\ ws_reconnect_delay' = initial_reconnect_delay
            /\ ws_failures' = 0
            /\ ws_pc' = "listening"
            /\ ws_wire' = handshake(outcome) \o subscribe_frames
            /\ ws_message_id' = ws_message_id + 2
       ELSE /\ ws_wire' = handshake(outcome)
            /\ ws_message_id' = ws_message_id
            /\ ws_reconnect_delay' =
                  backoff_after_sleep(ws_reconnect_delay, connect(outcome) = "raised")
            /\ ws_failures' = ws_failures + 1
            /\ ws_pc' = "connecting"
    /\ ws_socket' = IF outcome = "refused" THEN ws_socket ELSE "open"
    /\ UNCHANGED <<dispatch_vars, command_vars>>
    /\ UNCHANGED <<now, registry_vars, direct_vars, manager_vars, other_than_socket_unit>>

\* the listen loop receives an event frame and dispatches it; the handlers in
\* raising raise, which the loop over the handlers catches
DispatchEvent(event_type, raising) ==
    /\ ws_pc = "listening"
    /\ ws_events < MaxEvents
    /\ LET dispatch == dispatch_event(ws_handlers, event_type)
       IN  /\ ws_handlers' = dispatch.handlers
           /\ ws_delivered' =
                  [i \in 1..Len(dispatch.called) |->
                      [handler |-> dispatch.called[i],
                       raised |-> dispatch.called[i] \in raising]]
    /\ ws_event' = event_type
    /\ ws_events' = ws_events + 1
    /\ UNCHANGED <<ws_registered, connect_vars, command_vars>>
    /\ UNCHANGED <<now, registry_vars, direct_vars, manager_vars, other_than_socket_unit>>

\* the listen loop ends (close or error frame, or an exception it catches);
\* run() sleeps and doubles the delay
ConnectionLost(kind) ==
    /\ ws_pc = "listening"
    /\ ws_reconnect_delay' = backoff_after_sleep(ws_reconnect_delay, FALSE)
    /\ ws_failures' = ws_failures + 1
    /\ ws_pc' = "connecting"
    /\ ws_socket' = IF kind = "malformed" THEN ws_socket ELSE "closed"
    /\ UNCHANGED <<ws_connects, ws_wire, ws_message_id, dispatch_vars, command_vars>>
    /\ UNCHANGED <<now, registry_vars, direct_vars, manager_vars, other_than_socket_unit>>

\* a task calls send_command(command_type, ...) and the call runs to its
\* return; the listen loop reads the same socket while run() is listening
SendCommand(answer, reader) ==
    /\ ws_message_id < 2 * MaxConnects + MaxCommands
    /\ (reader = "alone") = (ws_pc # "listening")
    /\ ws_command' = send_command(ws_socket, ws_message_id, answer, reader)
    /\ ws_message_id' = IF ws_socket = "open" THEN ws_message_id + 1 ELSE ws_message_id
    /\ ws_socket' = IF ws_socket = "open" /\ answer = "lost" THEN "closed" ELSE ws_socket
    /\ UNCHANGED <<ws_pc, ws_reconnect_delay, ws_failures, ws_connects, ws_wire>>
    /\ UNCHANGED <<dispatch_vars>>
    /\ UNCHANGED <<now, registry_vars, direct_vars, manager_vars, other_than_socket_unit>>

NextCommand ==
    \/ \E outcome \in ConnectOutcomes : Connect(outcome)
    \/ \E kind \in LossKinds : ConnectionLost(kind)
    \/ \E answer \in CommandAnswers, reader \in Readers : SendCommand(answer, reader)

SpecCommand == Init /\ [][NextCommand]_vars

NextSocket ==
    \/ \E event_type \in HandlerKeys, handler \in Handlers : OnEvent(event_type, handler)
    \/ \E outcome \in ConnectOutcomes : Connect(outcome)
    \/ \E event_type \in EventTypes, raising \in SUBSET Handlers :
           DispatchEvent(event_type, raising)
    \/ \E kind \in LossKinds : ConnectionLost(kind)

SpecSocket == Init /\ [][NextSocket]_vars

(***************************************************************************)
(* The Telegram handler: configuration at startup, then inbound events     *)
(***************************************************************************)
\* load_config() with telegram_owner_id configured as v (0: not configured),
\* then TelegramHandler(owner_id=config.telegram_owner_id)
TelegramStart(v) ==
    /\ tg_owner_id = NoOwner
    /\ ~validate_telegram_owner_id(v).raised
    /\ tg_owner_id' = validate_telegram_owner_id(v).value
    /\ UNCHANGED tg_log
    /\ UNCHANGED <<now, registry_vars, direct_vars, manager_vars, other_than_telegram_unit>>

\* the bridge dispatches a telegram_text event to _on_telegram_event
TelegramEvent(data, response) ==
    /\ tg_owner_id # NoOwner
    /\ Len(tg_log) < MaxTelegramEvents
    /\ tg_log' = Append(tg_log, on_telegram_event(tg_owner_id, data, response))
    /\ UNCHANGED tg_owner_id
    /\ UNCHANGED <<now, registry_vars, direct_vars, manager_vars, other_than_telegram_unit>>

NextTelegram ==
    \/ \E v \in {0, 7, 8} : TelegramStart(v)
    \/ \E data \in TelegramEventData, response \in {"None", "reply", "raised"} :
           TelegramEvent(data, response)

SpecTelegram == Init /\ [][NextTelegram]_vars

(***************************************************************************)
(* The history on its own: get_history and load_history_from_audit applied *)
(* to a history and an audit table                                         *)
(***************************************************************************)
InitHistory ==
    /\ InitExceptHistory
    /\ messages \in Histories
    /\ audit_logs \in AuditTables

\* handle_chat_history and the tests call get_history
GetHistory ==
    /\ history_result' = [NoHistoryResult EXCEPT !.op = "get_history",
                                                 !.history = get_history(messages),
                                                 !.before = messages]
    /\ UNCHANGED <<messages, audit_logs>>
    /\ UNCHANGED <<now, registry_vars, direct_vars, current_source, current_user_id,
                   call, other_than_history_unit>>

\* a caller loads the history of user_id: load_history_from_audit(limit=limit)
\* or, as handle_chat_history does, load_history_from_audit(user_id=user_id)
LoadHistoryFromAudit(user_id, limit, audit, kwargs) ==
    LET loading == load_history_from_audit(messages, audit_logs, audit, kwargs, limit)
    IN  /\ messages' = loading.msgs
        /\ history_result' = [NoHistoryResult EXCEPT !.op = "load_history_from_audit",
                                                     !.raised = loading.raised,
                                                     !.loaded = loading.loaded,
                                                     !.user_id = user_id,
                                                     !.limit = limit,
                                                     !.audit = audit,
                                                     !.kwargs = kwargs,
                                                     !.before = messages]
        /\ UNCHANGED audit_logs
        /\ UNCHANGED <<now, registry_vars, direct_vars, current_source, current_user_id,
                       call, other_than_history_unit>>

LoadLimits == 1..2

NextHistory ==
    \/ GetHistory
    \/ \E context \in UserContexts, limit \in LoadLimits, audit \in BOOLEAN,
          kwargs \in {{}, {"user_id"}} :
           LoadHistoryFromAudit(context.user_id, limit, audit, kwargs)

SpecHistory == InitHistory /\ [][NextHistory]_vars

(***************************************************************************)
(* The database on its own: tasks write through the repository on the one  *)
(* connection (db/repository.py, db/connection.py).  The connection runs   *)
(* the statements one at a time, in the order the tasks await them.        *)
(***************************************************************************)
\* log_message or log_tool_execution: await self._db.execute(INSERT ...)
DbInsert(w, op) ==
    /\ db_task[w].pc \in {"idle", "returned"}
    /\ Len(db_audit_logs) + Len(db_tool_executions) < MaxDbInserts
    /\ LET table == IF op = "log_message" THEN db_audit_logs ELSE db_tool_executions
           id == autoincrement(table)
       IN  /\ IF op = "log_message"
              THEN /\ db_audit_logs' = Append(db_audit_logs, [id |-> id, by |-> w])
                   /\ UNCHANGED db_tool_executions
              ELSE /\ db_tool_executions' = Append(db_tool_executions, [id |-> id, by |-> w])
                   /\ UNCHANGED db_audit_logs
           /\ db_last_insert_rowid' = id
           /\ db_task' = [db_task EXCEPT ![w] = [pc |-> "inserted", op |-> op,
                                                 created |-> id, returned |-> 0]]
    /\ UNCHANGED <<now, registry_vars, direct_vars, manager_vars, other_than_db_unit>>

\* await self._db.commit()
DbCommit(w) ==
    /\ db_task[w].pc = "inserted"
    /\ db_task' = [db_task EXCEPT ![w].pc = "committed"]
    /\ UNCHANGED <<db_audit_logs, db_tool_executions, db_last_insert_rowid>>
    /\ UNCHANGED <<now, registry_vars, direct_vars, manager_vars, other_than_db_unit>>

\* await self._db.get_last_insert_id(), and the call returns it
DbGetLastInsertId(w) ==
    /\ db_task[w].pc = "committed"
    /\ db_task' = [db_task EXCEPT ![w].pc = "returned",
                                  ![w].returned = db_last_insert_rowid]
    /\ UNCHANGED <<db_audit_logs, db_tool_executions, db_last_insert_rowid>>
    /\ UNCHANGED <<now, registry_vars, direct_vars, manager_vars, other_than_db_unit>>

NextDb ==
    \/ \E w \in DbWriters, op \in DbCalls : DbInsert(w, op)
    \/ \E w \in DbWriters : DbCommit(w)
    \/ \E w \in DbWriters : DbGetLastInsertId(w)

SpecDb == Init /\ [][NextDb]_vars

(***************************************************************************)
(* The life of the process on its own: main(), MimirAgent.start() and the  *)
(* task of the event bridge (main.py, ha/websocket.py)                     *)
(***************************************************************************)
\* main(): MimirAgent(), whose load_config raises when required
\* configuration is missing (the exception ends asyncio.run: exit code 1);
\* then the signal handlers, and start() up to _connect_ha_with_retry
AgentCreate(config_ok) ==
    /\ lc_pc = "main"
    /\ IF config_ok
       THEN lc_pc' = "connecting" /\ UNCHANGED lc_exit_code
       ELSE lc_pc' = "exited" /\ lc_exit_code' = 1
    /\ UNCHANGED <<lc_attempts, lc_signal, lc_running, lc_bridge, lc_closed>>
    /\ UNCHANGED <<now, registry_vars, direct_vars, manager_vars, other_than_lifecycle_unit>>

\* signal_handler: agent.shutdown() sets the event
Signal ==
    /\ lc_pc \notin {"main", "exited"}
    /\ ~lc_signal
    /\ lc_signal' = TRUE
    /\ UNCHANGED <<lc_pc, lc_attempts, lc_running, lc_bridge, lc_closed, lc_exit_code>>
    /\ UNCHANGED <<now, registry_vars, direct_vars, manager_vars, other_than_lifecycle_unit>>

\* one turn of the loop of _connect_ha_with_retry: _check_ha_connection; on
\* success start() builds the managers and creates ws_task; after
\* max_retries failures start() waits for the shutdown event
CheckHaConnection(reachable) ==
    /\ lc_pc = "connecting"
    /\ lc_attempts < max_retries
    /\ IF reachable
       THEN /\ lc_pc' = "ready"
            /\ lc_bridge' = "connecting"
            /\ lc_running' = TRUE
            /\ UNCHANGED lc_attempts
       ELSE /\ lc_attempts' = lc_attempts + 1
            /\ lc_pc' = IF lc_attempts + 1 = max_retries THEN "unreachable" ELSE "connecting"
            /\ UNCHANGED <<lc_bridge, lc_running>>
    /\ UNCHANGED <<lc_signal, lc_closed, lc_exit_code>>
    /\ UNCHANGED <<now, registry_vars, direct_vars, manager_vars, other_than_lifecycle_unit>>

\* start() after the failed retries: the shutdown event, _stop_web_server,
\* return; main() returns and asyncio.run ends with exit code 0
UnreachableReturn ==
    /\ lc_pc = "unreachable"
    /\ lc_signal
    /\ lc_closed' = Append(lc_closed, "web_server.stop")
    /\ lc_pc' = "exited"
    /\ lc_exit_code' = 0
    /\ UNCHANGED <<lc_attempts, lc_signal, lc_running, lc_bridge>>
    /\ UNCHANGED <<now, registry_vars, direct_vars, manager_vars, other_than_lifecycle_unit>>

\* the task ws_task gets to run: HomeAssistantWebSocket.run
BridgeRuns(event) ==
    /\ lc_bridge \in BridgeRunning
    /\ run_after(lc_bridge, lc_running, event) # lc_bridge
    /\ lc_bridge' = run_after(lc_bridge, lc_running, event)
    /\ UNCHANGED <<lc_pc, lc_attempts, lc_signal, lc_running, lc_closed, lc_exit_code>>
    /\ UNCHANGED <<now, registry_vars, direct_vars, manager_vars, other_than_lifecycle_unit>>

\* start() after the shutdown event: the next await of the finally block
\* completes; after the last one start() and main() return: exit code 0
CleanupStep ==
    /\ \/ lc_pc = "ready" /\ lc_signal
       \/ lc_pc = "cleanup"
    /\ LET step == Cleanup[Len(lc_closed) + 1]
       IN  /\ lc_closed' = Append(lc_closed, step)
           /\ lc_running' = IF step = "ha_ws.stop" THEN FALSE ELSE lc_running
           /\ lc_bridge' = IF step = "ws_task.cancel" /\ lc_bridge \in BridgeRunning
                           THEN "cancelled"
                           ELSE lc_bridge
           /\ IF step = Cleanup[Len(Cleanup)]
              THEN lc_pc' = "exited" /\ lc_exit_code' = 0
              ELSE lc_pc' = "cleanup" /\ UNCHANGED lc_exit_code
    /\ UNCHANGED <<lc_attempts, lc_signal>>
    /\ UNCHANGED <<now, registry_vars, direct_vars, manager_vars, other_than_lifecycle_unit>>

NextLifecycle ==
    \/ \E config_ok \in BOOLEAN : AgentCreate(config_ok)
    \/ Signal
    \/ \E reachable \in BOOLEAN : CheckHaConnection(reachable)
    \/ UnreachableReturn
    \/ \E event \in BridgeEvents : BridgeRuns(event)
    \/ CleanupStep

SpecLifecycle == Init /\ [][NextLifecycle]_vars

(***************************************************************************)
(* The adapters on their own: stream applied to the events of a provider   *)
(* stream that ends (llm/anthropic.py, llm/openai.py)                      *)
(***************************************************************************)
EventSeqs(alphabet) == UNION {[1..n -> alphabet] : n \in 0..MaxStreamEvents}

\* a caller consumes AnthropicProvider.stream to its end
AnthropicStream(events) ==
    /\ stream_result' = [adapter |-> "anthropic", events |-> events,
                         chunks |-> anthropic_stream(events, FALSE, <<>>, 0)]
    /\ UNCHANGED <<now, registry_vars, direct_vars, manager_vars, other_than_stream_unit>>

\* a caller consumes OpenAIProvider.stream to its end
OpenAIStream(chunks) ==
    /\ stream_result' = [adapter |-> "openai", events |-> chunks,
                         chunks |-> openai_stream(chunks)]
    /\ UNCHANGED <<now, registry_vars, direct_vars, manager_vars, other_than_stream_unit>>

NextStream ==
    \/ \E events \in EventSeqs(AnthropicEvents) : AnthropicStream(events)
    \/ \E chunks \in EventSeqs(OpenAIChunks) : OpenAIStream(chunks)

SpecStream == Init /\ [][NextStream]_vars

(***************************************************************************)
(* One ProcessMessage call whose audit writes may fail: log_message raises *)
(* and the except clauses of the manager catch it                          *)
(***************************************************************************)
NextAudit ==
    \/ \E ctx \in UserContexts, text \in UserTexts, ok \in BOOLEAN :
          ProcessMessage(1, ctx, text, ok)
    \/ \E ok \in BOOLEAN : ModeLogUserDone(1, ok)
    \/ ModeLogAssistantDone(1)
    \/ \E ok \in BOOLEAN : LogUserDone(1, ok)
    \/ \E response \in LLMResponses, ok \in BOOLEAN : LLMReturns(1, response, ok)
    \/ \E api \in ApiOutcomes, ok \in BOOLEAN : ToolDone(1, api, ok)
    \/ \E ok \in BOOLEAN : CallbackDone(1, ok)
    \/ LogAssistantDone(1)

SpecAudit == Init /\ [][NextAudit]_vars

(***************************************************************************)
(* run() of the bridge await by await (ha/websocket.py): connect, the two  *)
(* subscriptions, the listen loop, the sleep, and stop() called by another *)
(* task.  After stop() the socket and the session are closed, so whatever  *)
(* run() awaits on them ends as a closed connection.                       *)
(***************************************************************************)
BridgeUnchanged ==
    UNCHANGED <<now, registry_vars, direct_vars, manager_vars, other_than_bridge_unit>>

\* connect(): session.ws_connect returns a socket or raises ClientError
BrConnect(opened) ==
    /\ br_pc = "connect"
    /\ opened => br_running
    /\ IF opened
       THEN /\ br_sockets' = Append(br_sockets, "open")
            /\ br_ws' = Len(br_sockets) + 1
            /\ br_pc' = "auth_required"
       ELSE /\ br_pc' = after_cycle(br_running)
            /\ UNCHANGED <<br_sockets, br_ws>>
    /\ br_confirmed' = {}
    /\ br_subscribed' = {}
    /\ UNCHANGED <<br_running, br_attempts, br_events, br_stops, br_at_stop>>
    /\ BridgeUnchanged

\* connect(): a frame arrives while it waits for auth_required or for the
\* answer to auth.  A frame that is not the expected one makes connect()
\* return False; one that is no JSON raises out of connect() into the
\* `except Exception` of run(), which sleeps.  The socket stays as it is.
BrHandshake(frame) ==
    /\ br_pc \in {"auth_required", "auth"}
    /\ ~br_running => frame = "closed"
    /\ br_ws # 0 /\ br_sockets[br_ws] = "closed" => frame = "closed"
    /\ IF frame = "expected"
       THEN /\ br_pc' = IF br_pc = "auth_required" THEN "auth" ELSE "subscribe_1"
            /\ UNCHANGED br_sockets
       ELSE /\ br_pc' = IF frame = "malformed" THEN "sleeping" ELSE after_cycle(br_running)
            /\ br_sockets' = IF frame = "closed" THEN peer_closed(br_sockets, br_ws)
                             ELSE br_sockets
    /\ UNCHANGED <<br_running, br_ws, br_confirmed, br_subscribed, br_attempts, br_events,
                   br_stops, br_at_stop>>
    /\ BridgeUnchanged

\* where run() is after subscribe_events number n has returned: the next
\* subscription, the listen loop, or, on a socket that is closed or gone,
\* through both without waiting to the end of the cycle
after_subscribe(n, alive, running) ==
    IF ~alive THEN after_cycle(running)
    ELSE IF n = 1 THEN "subscribe_2" ELSE "listening"

\* subscribe_events: a frame arrives while it waits for its confirmation.
\* An event frame has another id and is passed over; a frame that is no JSON
\* raises into the `except Exception` of run(), which sleeps, and so does
\* send_json on a socket whose transport is gone.  The controller sends
\* events of the types whose subscription it has confirmed.
BrSubscribe(frame) ==
    /\ br_pc \in {"subscribe_1", "subscribe_2"}
    /\ ~br_running \/ br_ws = 0 => frame \in {"closed", "send_failed"}
    /\ frame = "event" => br_subscribed # {} /\ Len(br_events) < MaxBridgeEvents
    /\ LET n == IF br_pc = "subscribe_1" THEN 1 ELSE 2
       IN  CASE frame = "result_ok" ->
                    /\ br_confirmed' = br_confirmed \cup {MessageEvents[n]}
                    /\ br_subscribed' = br_subscribed \cup {MessageEvents[n]}
                    /\ br_pc' = after_subscribe(n, TRUE, br_running)
                    /\ UNCHANGED <<br_sockets, br_events>>
             [] frame = "result_refused" ->
                    /\ br_pc' = after_subscribe(n, TRUE, br_running)
                    /\ UNCHANGED <<br_sockets, br_events, br_confirmed, br_subscribed>>
             [] frame = "event" ->
                    /\ br_events' = Append(br_events, [at |-> br_pc, delivered |-> FALSE])
                    /\ UNCHANGED <<br_pc, br_sockets, br_confirmed, br_subscribed>>
             [] frame = "malformed" ->
                    /\ br_pc' = "sleeping"
                    /\ UNCHANGED <<br_sockets, br_events, br_confirmed, br_subscribed>>
             [] frame = "send_failed" ->
                    /\ br_sockets' = peer_closed(br_sockets, br_ws)
                    /\ br_pc' = "sleeping"
                    /\ UNCHANGED <<br_events, br_confirmed, br_subscribed>>
             [] frame = "closed" ->
                    /\ br_sockets' = peer_closed(br_sockets, br_ws)
                    /\ br_pc' = after_subscribe(n, FALSE, br_running)
                    /\ UNCHANGED <<br_events, br_confirmed, br_subscribed>>
    /\ UNCHANGED <<br_running, br_ws, br_attempts, br_stops, br_at_stop>>
    /\ BridgeUnchanged

\* _listen_loop: a frame arrives.  An event is dispatched (the handler is
\* awaited); a frame that is no JSON raises into the `except Exception` of
\* _listen_loop, which returns; a closed socket ends the loop.
BrListen(frame) ==
    /\ br_pc = "listening"
    /\ ~br_running \/ br_ws = 0 => frame = "closed"
    /\ frame = "event" => br_subscribed # {} /\ Len(br_events) < MaxBridgeEvents
    /\ CASE frame = "event" ->
                /\ br_events' = Append(br_events, [at |-> br_pc, delivered |-> TRUE])
                /\ br_pc' = "dispatching"
                /\ UNCHANGED br_sockets
         [] frame = "malformed" ->
                /\ br_pc' = after_cycle(br_running)
                /\ UNCHANGED <<br_sockets, br_events>>
         [] frame = "closed" ->
                /\ br_sockets' = peer_closed(br_sockets, br_ws)
                /\ br_pc' = after_cycle(br_running)
                /\ UNCHANGED br_events
    /\ UNCHANGED <<br_running, br_ws, br_confirmed, br_subscribed, br_attempts, br_stops,
                   br_at_stop>>
    /\ BridgeUnchanged

\* _dispatch_event: the handlers are done, _listen_loop reads on
BrDispatched ==
    /\ br_pc = "dispatching"
    /\ br_pc' = "listening"
    /\ UNCHANGED <<br_running, br_sockets, br_ws, br_confirmed, br_subscribed, br_attempts,
                   br_events, br_stops, br_at_stop>>
    /\ BridgeUnchanged

\* run(): the sleep is over; the next attempt if _running still holds
BrWake ==
    /\ br_pc = "sleeping"
    /\ after_sleep(br_running) = "connect" => br_attempts < MaxBridgeAttempts
    /\ br_pc' = after_sleep(br_running)
    /\ br_attempts' = IF after_sleep(br_running) = "connect" THEN br_attempts + 1
                      ELSE br_attempts
    /\ UNCHANGED <<br_running, br_sockets, br_ws, br_confirmed, br_subscribed, br_events,
                   br_stops, br_at_stop>>
    /\ BridgeUnchanged

\* another task calls stop()
BrStop ==
    /\ br_stops < MaxStops
    /\ LET stopped == stop(br_running, br_sockets, br_ws)
       IN  /\ br_running' = stopped.running
           /\ br_sockets' = stopped.sockets
           /\ br_ws' = stopped.ws
    /\ br_stops' = br_stops + 1
    /\ br_at_stop' = IF br_stops = 0 THEN [attempts |-> br_attempts, pc |-> br_pc]
                      ELSE br_at_stop
    /\ UNCHANGED <<br_pc, br_confirmed, br_subscribed, br_attempts, br_events>>
    /\ BridgeUnchanged

BridgeRun ==
    \/ \E opened \in BOOLEAN : BrConnect(opened)
    \/ \E frame \in HandshakeFrames : BrHandshake(frame)
    \/ \E frame \in SubscribeFrames : BrSubscribe(frame)
    \/ \E frame \in ListenFrames : BrListen(frame)
    \/ BrDispatched
    \/ BrWake

NextBridge == BridgeRun \/ BrStop

SpecBridge == Init /\ [][NextBridge]_vars

\* what run() awaits is always resolved: a frame or the end of the
\* connection on a socket, the end of a sleep, the return of a handler
SpecBridgeFair == SpecBridge /\ WF_vars(BridgeRun)

(***************************************************************************)
(* process_message with responses that carry several tool calls: two       *)
(* calls, the text "hello", audit writes that succeed.                     *)
(***************************************************************************)
\* the tool calls of these responses: a read, a deletion whose entity_id
\* is no string, a tool that is not registered
BatchToolCalls ==
    {<<"get_entity_state", "valid">>,
     <<"delete_automation", "non_string">>,
     <<"open_garage", "valid">>}

BatchResponses ==
    {[error |-> FALSE, content |-> <<"Done", ".">>, tool_calls |-> <<>>]}
    \cup {[error |-> FALSE, content |-> NoneStr, tool_calls |-> tcs] :
             tcs \in UNION {[1..n -> BatchToolCalls] : n \in 1..MaxBatch}}

\* the first call comes from the web, the second from the bot
BatchContext(t) ==
    IF t = 1 THEN [user_id |-> "u1", source |-> "web"]
    ELSE [user_id |-> "owner", source |-> "telegram"]

NextBatch ==
    \/ \E t \in Calls : ProcessMessage(t, BatchContext(t), "hello", TRUE)
    \/ \E t \in Calls : LogUserDone(t, TRUE)
    \/ \E t \in Calls, response \in BatchResponses : LLMReturns(t, response, TRUE)
    \/ \E t \in Calls, api \in {"ok", "http_error"} : ToolDone(t, api, TRUE)
    \/ \E t \in Calls : CallbackDone(t, TRUE)
    \/ \E t \in Calls : LogAssistantDone(t)

SpecBatch == Init /\ [][NextBatch]_vars

(***************************************************************************)
(* Claims about the registry                                               *)
(***************************************************************************)
WriteTools == {"create_automation"}
DestructiveTools == {"delete_automation"}
UnknownToolResult(tool_name) == <<"Error", ":", " Unknown tool '", tool_name, "'">>

\* C2: in CHAT mode, Execute of a write or destructive tool does not run the
\* tool (no controller API call), returns a string that starts with "Error:"
\* and mentions Chat mode, and leaves the rate limiter's queues unchanged.
C2_ChatModeBlocksWrites ==
    [][\A c \in ExecCallers, tc \in ToolCallInputs :
        (/\ Execute(c, tc[1], tc[2])
         /\ mode_manager.mode = "chat"
         /\ tc[1] \in WriteTools \cup DestructiveTools)
        => /\ exec'[c].pc = "returned"
           /\ ~exec'[c].tool_ran
           /\ ~exec'[c].api_called
           /\ StartsWith(exec'[c].ret, ErrorPrefix)
           /\ Mentions(exec'[c].ret, "Chat mode")
           /\ rate_limiter' = rate_limiter]_vars

C2_Witness ==
    \E c \in ExecCallers :
        /\ exec[c].name = "delete_automation"
        /\ exec[c].outcome = "blocked"
        /\ mode_manager.mode = "chat"
        /\ Len(rate_limiter.deletion) > 0

\* C3: with rate limiting enabled, never more than the cap of operations of a
\* category are recorded within one window, for every interleaving of Execute
\* calls.
C3_AtMostCapRecorded ==
    rate_limiting_enabled =>
        \A op \in {"deletion", "modification"} :
            Cardinality(InWindow(rate_limiter[op], now)) <= OperationCap(op)

\* C7: every Execute call causes exactly one callback invocation before it
\* returns, however it ends.
C7_OneCallbackPerExecute ==
    \A c \in ExecCallers :
        exec[c].pc \in {"returned", "raised"} => exec[c].callbacks = 1

\* C8 as stated: Execute of an unregistered name returns
\* "Error: Unknown tool '<name>'" and does not raise.
C8_UnknownToolReturnsError ==
    \A c \in ExecCallers :
        (exec[c].pc # "idle" /\ exec[c].name \notin RegisteredTools)
        => /\ exec[c].pc = "returned"
           /\ exec[c].ret = UnknownToolResult(exec[c].name)

\* C8 as amended: Execute of an unregistered name raises ToolNotFoundError
\* and returns no string; no tool runs and no callback is invoked.
C8_UnknownToolRaises ==
    \A c \in ExecCallers :
        (exec[c].pc # "idle" /\ exec[c].name \notin RegisteredTools)
        => /\ exec[c].pc = "raised"
           /\ exec[c].error_msg = <<"Tool not found: ", exec[c].name>>
           /\ exec[c].ret = NoneStr
           /\ ~exec[c].tool_ran
           /\ exec[c].callbacks = 0

C8_Witness ==
    \E c \in ExecCallers :
        /\ exec[c].name \notin RegisteredTools
        /\ exec[c].name \in ToolNames
        /\ exec[c].pc = "raised"

(***************************************************************************)
(* Claims about the conversation manager                                   *)
(***************************************************************************)
Range(seq) == {seq[i] : i \in DOMAIN seq}

\* the audit entries of type message_type that call t has written
Entries(t, message_type) ==
    {i \in DOMAIN audit_logs :
        audit_logs[i].call = t /\ audit_logs[i].message_type = message_type}

\* what is left for a call to do: a measure that is 0 when the call has
\* ended and that every step of the call makes smaller
Rank(c) ==
    LET turn == 2 * MaxToolCalls + 1
        base == 2 + (max_tool_iterations - c.iterations) * turn
        n == Len(c.tool_calls)
    IN  CASE c.pc \in Ended -> 0
          [] c.pc \in {"log_assistant", "mode_log_assistant"} -> 1
          [] c.pc = "mode_log_user" -> 2
          [] c.pc = "callback" -> base + 2 * n - 2
          [] c.pc = "tool" -> base + 2 * n - 1
          [] c.pc = "llm" -> base + 2 * MaxToolCalls
          [] c.pc = "log_user" -> base + 2 * MaxToolCalls + 1
          [] c.pc = "idle" -> base + 2 * MaxToolCalls + 2

LoopBounded ==
    \A t \in Calls :
        /\ call[t].llm_calls <= max_tool_iterations
        /\ (call[t].tool_turns = max_tool_iterations
               /\ call[t].pc \notin {"tool", "callback"})
           => /\ call[t].pc \in {"log_assistant", "done"}
              /\ call[t].reply = LimitResponse

\* C1: a ProcessMessage call makes at most max_tool_iterations LLM calls,
\* whatever the provider answers, and then returns: every step of the call
\* brings it closer to its end.  Once max_tool_iterations responses have
\* requested tool calls and the last batch has been executed, the call makes
\* no further LLM call and replies with the fixed 'hit a limit' sentence.
C1_LoopBoundedAndReturns ==
    /\ []LoopBounded
    /\ [][\A t \in Calls :
             call'[t] # call[t]
             => Rank(call'[t]) >= 0 /\ Rank(call'[t]) < Rank(call[t])]_vars

C1_Witness ==
    \E t \in Calls :
        /\ call[t].pc = "done"
        /\ call[t].llm_calls = max_tool_iterations
        /\ call[t].tool_turns = max_tool_iterations
        /\ call[t].reply = LimitResponse

\* C4: a ProcessMessage call that has ended, however it ended, has written
\* exactly one audit entry of type user and exactly one of type assistant,
\* and every entry it wrote carries the user_id of its own context.
C4_OneUserOneAssistantEntry ==
    \A t \in Calls :
        call[t].pc \in Ended /\ ~call[t].audit_failed
        => /\ Cardinality(Entries(t, "user")) = 1
           /\ Cardinality(Entries(t, "assistant")) = 1
           /\ \A i \in Entries(t, "user") \cup Entries(t, "assistant") :
                  audit_logs[i].user_id = call[t].user_id

\* C5: the message list a call sends to the LLM holds only messages sent by,
\* or replies given to, the user of that call.
C5_HistoryPartitionedByUser ==
    \A t \in Calls : call[t].sent_by \subseteq {call[t].user_id}

\* C6: when a call has made its first LLM call, every call of the same user
\* that arrived before it has ended.
C6_SameUserCallsSerial ==
    \A t1, t2 \in Calls :
        (t1 < t2 /\ call[t2].llm_calls > 0 /\ call[t1].user_id = call[t2].user_id)
        => call[t1].pc \in Ended

\* the execution behind a tool_result message of the history
ExecutionOf(m) ==
    CHOOSE e \in Range(call[m.tool_call_id[1]].executed) : e.id = m.tool_call_id

\* C9: a tool_result in the history has is_error = TRUE exactly when the
\* execution of its tool call failed (the tool raised, or the call was
\* refused before the tool ran) or the tool returned a string that begins
\* with "Error:".
C9_IsErrorIffExecutionFailed ==
    \A i \in DOMAIN messages :
        messages[i].tool_call_id # NoId
        => LET e == ExecutionOf(messages[i])
           IN  messages[i].is_error
               <=> (e.raised \/ e.denied \/ StartsWith(e.returned, ErrorPrefix))

\* C10: a tool call whose controller API call failed is a tool-execution
\* error: its tool_result has is_error = TRUE, the callback got
\* success = FALSE, and nothing was recorded with the rate limiter.
C10_ApiFailureIsToolError ==
    \A t \in Calls : \A e \in Range(call[t].executed) :
        e.api_failed => e.is_error /\ ~e.success /\ ~e.recorded

\* C11: when an LLM call of a ProcessMessage call has failed with a provider
\* error, the call leaves the loop and ends by returning a reply text; the
\* error does not propagate to the caller of ProcessMessage.
C11_ProviderFailureBecomesReply ==
    \A t \in Calls :
        call[t].provider_failed
        => /\ call[t].pc \in {"log_assistant", "done"}
           /\ Truthy(call[t].reply)

\* C12: after a ProcessMessage call has returned (and no other call is in
\* flight), the history holds at most max_history entries: whatever was
\* appended beyond the bound, the assistant and tool_result messages of the
\* loop included, has been trimmed from the head.
C12_HistoryBoundedAfterReturn ==
    (/\ \A t \in Calls : call[t].pc \in Ended \cup {"idle"}
     /\ \E t \in Calls : call[t].pc = "done")
    => Len(messages) <= max_history

(***************************************************************************)
(* Claims about the mode manager                                           *)
(***************************************************************************)
\* the mode a read at time t would return
ObservedMode(mm, t) ==
    IF mm.mode = "yolo"
       /\ (mm.yolo_activated_at = NoTime
           \/ t >= mm.yolo_activated_at + yolo_duration_minutes * 60)
    THEN "normal"
    ELSE mm.mode

\* C13: set_mode(m) leads to mode m from any state; set YOLO starts the
\* timer at the time of the call, set CHAT and set NORMAL clear it; the
\* passage of time changes the mode a read returns only from YOLO, to NORMAL,
\* exactly when the time is at or past activation + duration.
C13_ModeTransitionTable ==
    [][/\ \A mode \in OperatingMode :
            ModeSet(mode)
            => /\ mode_manager'.mode = mode
               /\ ObservedMode(mode_manager', now') = mode
               /\ current_mode(mode_manager', now').mode = mode
               /\ mode_manager'.yolo_activated_at
                      = IF mode = "yolo" THEN now ELSE NoTime
       /\ ModeClock
            => /\ mode_manager' = mode_manager
               /\ current_mode(mode_manager', now').mode = ObservedMode(mode_manager, now')
               /\ ObservedMode(mode_manager, now) \in {"chat", "normal"}
                    => ObservedMode(mode_manager, now') = ObservedMode(mode_manager, now)
               /\ ObservedMode(mode_manager, now') # ObservedMode(mode_manager, now)
                    => /\ ObservedMode(mode_manager, now) = "yolo"
                       /\ ObservedMode(mode_manager, now') = "normal"
                       /\ now' >= mode_manager.yolo_activated_at
                                      + yolo_duration_minutes * 60]_vars

C13_Witness ==
    /\ mode_manager.mode = "yolo"
    /\ mode_manager.yolo_activated_at > 0
    /\ now >= mode_manager.yolo_activated_at + yolo_duration_minutes * 60
    /\ Len(mode_callbacks) > 0

\* C14: a read of the current mode at or after activation + duration,
\* while YOLO is stored, returns NORMAL, stores NORMAL and calls the
\* mode-change callback once, with NORMAL; every other read returns the
\* stored mode and calls no callback, so a later read fires nothing more.
C14_ExpiryFiresOnce ==
    [][ModeRead
       => IF /\ mode_manager.mode = "yolo"
             /\ now >= mode_manager.yolo_activated_at + yolo_duration_minutes * 60
          THEN /\ mode_result'.mode = "normal"
               /\ mode_manager'.mode = "normal"
               /\ mode_callbacks' = Append(mode_callbacks, "normal")
          ELSE /\ mode_result'.mode = mode_manager.mode
               /\ mode_manager' = mode_manager
               /\ mode_callbacks' = mode_callbacks]_vars

C14_Witness ==
    /\ mode_result.op = "current_mode"
    /\ mode_result.mode = "normal"
    /\ ~mode_result.expired
    /\ Len(mode_callbacks) > 0
    /\ mode_callbacks[Len(mode_callbacks)] = "normal"
    /\ now >= 2 * yolo_duration_minutes * 60

ReadOnlyTools == {"get_entity_state"}

\* C15: check_tool_allowed allows a read_only tool in every mode, denies a
\* write or destructive tool with a reason in CHAT, and allows it in NORMAL
\* and YOLO; the mode it uses is the one after the expiry check.
C15_CheckToolAllowedTable ==
    mode_result.op = "check_tool_allowed"
    => /\ mode_result.mode = mode_manager.mode
       /\ mode_result.expired => mode_result.mode = "normal"
       /\ mode_result.tool_name \in ReadOnlyTools => mode_result.allowed
       /\ mode_result.tool_name \in WriteTools \cup DestructiveTools
            => /\ mode_result.allowed <=> mode_result.mode \in {"normal", "yolo"}
               /\ ~mode_result.allowed => Len(mode_result.message) > 0

C15_Witness ==
    /\ mode_result.op = "check_tool_allowed"
    /\ mode_result.tool_name \in DestructiveTools
    /\ mode_result.expired
    /\ mode_result.allowed

(***************************************************************************)
(* Claims about the rate limiter                                           *)
(***************************************************************************)
\* C16: check_allowed returns true exactly when the number of recorded
\* operations of the category whose timestamp lies within the window is
\* strictly below the cap: false with the cap or more in the window, true
\* again once enough of them have slid out.
C16_AllowedIffBelowCap ==
    [][\A operation_type \in OperationTypes :
          LimiterCheck(operation_type)
          => /\ limiter_result'.allowed
                  <=> Cardinality(InWindow(rate_limiter[operation_type], now))
                          < OperationCap(operation_type)
             /\ Len(rate_limiter'[operation_type])
                  = Cardinality(InWindow(rate_limiter[operation_type], now))
             /\ ~limiter_result'.allowed
                  => Mentions(limiter_result'.message, "Rate limit")]_vars

C16_Witness ==
    /\ limiter_result.operation_type = "deletion"
    /\ limiter_result.allowed
    /\ limiter_result.dropped >= deletions_per_hour
    /\ Len(rate_limiter.deletion) > 0

(***************************************************************************)
(* Claims about the registry and the tools the application registers       *)
(***************************************************************************)
\* the queue a category's operations are counted in
MatchingQueue(category) ==
    IF category = "destructive" THEN "deletion" ELSE "modification"

\* C17: a tool execution that fails (the tool raises, or returns a string
\* beginning with "Error:") is never recorded with the rate limiter, and a
\* successful execution of a write or destructive tool is recorded exactly
\* once in the matching queue.
C17_RecordedIffSuccessfulWrite ==
    guard_result.outcome = "running"
    => LET failed == guard_result.raised
                         \/ StartsWith(guard_result.result, ErrorPrefix)
           category == get_tool_category(guard_result.tool_name)
       IN  /\ failed => \A operation_type \in OperationTypes :
                            guard_result.added[operation_type] = 0
           /\ ~failed /\ category \in {"write", "destructive"}
                => \A operation_type \in OperationTypes :
                       guard_result.added[operation_type] =
                           IF operation_type = MatchingQueue(category)
                           THEN 1 ELSE 0

\* C18: for every tool the application registers, its category decides its
\* limits: a read_only tool is never blocked by mode or rate limit, every
\* write tool is checked against the modification cap, and every
\* destructive tool is checked against the deletion cap.
C18_CategoryDecidesLimits ==
    guard_result.tool_name \in AppTools
    => LET category == get_tool_category(guard_result.tool_name)
           operation_type == MatchingQueue(category)
           at_cap == guard_result.in_window[operation_type]
                         >= OperationCap(operation_type)
       IN  /\ category = "read_only" => guard_result.outcome = "running"
           /\ category # "read_only" /\ guard_result.mode = "chat"
                => guard_result.outcome = "blocked"
           /\ category # "read_only" /\ guard_result.mode # "chat"
                => guard_result.outcome
                       = IF at_cap /\ guard_result.enabled
                         THEN "limited" ELSE "running"

(***************************************************************************)
(* Claims about the controller's socket                                    *)
(***************************************************************************)
\* the times handler stands in a list of handlers
Registrations(handlers, handler) ==
    Cardinality({i \in 1..Len(handlers) : handlers[i] = handler})

\* the times the last dispatch called handler
Deliveries(handler) ==
    Cardinality({i \in 1..Len(ws_delivered) : ws_delivered[i].handler = handler})

\* C19: over any sequence of events, each event is delivered exactly once to
\* each handler registered for its event_type and exactly once to each
\* handler registered for "*", even when other handlers raise; dispatching
\* an event never changes the handler registry.
C19_DeliveredOnceRegistryUnchanged ==
    /\ ws_handlers = ws_registered
    /\ ws_event # None
         => \A handler \in Handlers :
                Deliveries(handler)
                    = Registrations(handlers_get(ws_registered, ws_event), handler)
                      + Registrations(handlers_get(ws_registered, CatchAll), handler)

\* C20: after K consecutive failed connection cycles the next backoff is
\* min(2^K, 60) seconds, whatever the kind of failure (refused connection,
\* protocol violation including a malformed frame, authentication failure,
\* transport loss), and after a successful auth_ok the backoff is 1 second.
C20_BackoffIsPowerOfTwoCapped ==
    ws_reconnect_delay = Min(2 ^ ws_failures, max_reconnect_delay)

\* the frames of a completed handshake
Authenticated == <<"in auth_required", "out auth", "in auth_ok">>

\* C21: on each connection attempt the bridge sends the auth frame only after
\* auth_required arrived as the first inbound frame, and sends subscribe
\* requests and dispatches events only after the next frame is auth_ok; any
\* other frame sequence aborts the attempt with no subscribe request sent on
\* that connection.
C21_HandshakeBeforeSubscribe ==
    /\ \A i \in 1..Len(ws_wire) :
          /\ ws_wire[i] = "out auth" => i = 2 /\ ws_wire[1] = "in auth_required"
          /\ ws_wire[i] = "out subscribe_events"
               => i > 3 /\ SubSeq(ws_wire, 1, 3) = Authenticated
    /\ ws_pc = "listening"
         => Len(ws_wire) > 3 /\ SubSeq(ws_wire, 1, 3) = Authenticated
    /\ (Len(ws_wire) < 3 \/ SubSeq(ws_wire, 1, 3) # Authenticated)
         => ws_pc = "connecting"

C21_Witness ==
    /\ ws_connects > 1
    /\ ws_failures = 0
    /\ ws_pc = "listening"
    /\ ws_events > 0
    /\ \E i \in 1..Len(ws_wire) : ws_wire[i] = "out subscribe_events"

\* C22: send_command allocates a fresh id, sends the command, and returns the
\* result carried by the result frame with that id whenever the controller
\* answers with success within 30 seconds; it returns None and does not
\* raise when that frame reports failure, when no such frame arrives within
\* 30 seconds, or when the connection is lost, also while the listen loop
\* runs on the same connection.
C22_CommandResultCorrelated ==
    ws_command.sent
    => /\ ws_command.id = ws_message_id \/ ws_command.id < ws_message_id
       /\ ws_command.id > 0
       /\ ws_command.answer = "success" => ws_command.returned = "result"
       /\ ws_command.answer \in {"failure", "timeout", "lost"}
            => ws_command.returned = "None"

(***************************************************************************)
(* Claims about the Telegram handler                                       *)
(***************************************************************************)
\* C23: an inbound message event causes a call of the conversation handler
\* and an outbound reply only if its user_id equals the configured owner id;
\* for every other event, including one that carries no user_id, no handler
\* call and no outbound message occurs.
C23_OnlyOwnerIsProcessed ==
    \A i \in 1..Len(tg_log) :
        (tg_log[i].called \/ tg_log[i].sent)
        => /\ "user_id" \in DOMAIN tg_log[i].data
           /\ tg_log[i].data.user_id = tg_owner_id

C23_Witness ==
    /\ Len(tg_log) = 2
    /\ tg_log[1].called /\ tg_log[1].sent
    /\ "user_id" \notin DOMAIN tg_log[2].data
    /\ ~tg_log[2].called

(***************************************************************************)
(* More claims about the conversation manager                              *)
(***************************************************************************)
\* C24: when process_message calls for two different users overlap in time,
\* every audit entry written for a call (its user entry and its assistant
\* entry) carries that call's own user_id and source, never those of the
\* other call.
C24_AuditEntriesCarryOwnContext ==
    \A i \in 1..Len(audit_logs) :
        /\ audit_logs[i].user_id = call[audit_logs[i].call].user_id
        /\ audit_logs[i].source = call[audit_logs[i].call].source

\* C25: a message recognised as a mode command or mode query is handled
\* before anything is appended to history: the call makes no LLM call, leaves
\* the history unchanged, writes both the user utterance and the mode
\* manager's reply to audit under that user, and returns that reply.
C25_ModeCommandBypassesLoop ==
    \A t \in Calls :
        (call[t].pc = "done"
         /\ (is_mode_query(call[t].text) \/ parse_mode_command(call[t].text) # None))
        => /\ call[t].llm_calls = 0
           /\ \A i \in 1..Len(messages) : messages[i].content # <<call[t].text>>
           /\ \E i \in Entries(t, "user"), j \in Entries(t, "assistant") :
                  /\ i < j
                  /\ audit_logs[i].content = <<call[t].text>>
                  /\ audit_logs[j].content = call[t].reply
                  /\ audit_logs[i].user_id = call[t].user_id
                  /\ audit_logs[j].user_id = call[t].user_id
                  /\ Entries(t, "user") \cup Entries(t, "assistant") = {i, j}


(***************************************************************************)
(* Claims about the history                                                *)
(***************************************************************************)
RoleAndContent(msgs) ==
    [i \in 1..Len(msgs) |-> [role |-> msgs[i].role, content |-> msgs[i].content]]

\* a user's own message or an assistant message, with text
HasText(msg) == msg.tool_call_id = NoId /\ Truthy(msg.content)

\* C26: get_history returns, in order, exactly the user messages and the
\* assistant messages that have text: tool results and assistant messages
\* with tool calls only are omitted, an assistant message with text and tool
\* calls is kept with its text, and no tool call appears in the output.
C26_HistoryKeepsMessagesWithText ==
    history_result.op = "get_history" =>
        /\ history_result.history = RoleAndContent(SelectSeq(messages, HasText))
        /\ \A i \in 1..Len(history_result.history) :
               DOMAIN history_result.history[i] = {"role", "content"}

\* the audit entries of type user or assistant of one user, oldest first
OwnEntries(logs, user_id) ==
    SelectSeq(logs, LAMBDA log : /\ log.user_id = user_id
                                 /\ log.message_type \in {"user", "assistant"})

\* C27: LoadHistoryFromAudit(user_id, limit) replaces the history with at
\* most limit of the most recent user and assistant audit entries of that
\* user only, oldest first, and returns their number; with no audit store
\* bound it returns 0 and leaves the history unchanged.
C27_LoadsOwnRecentEntries ==
    history_result.op = "load_history_from_audit" =>
        /\ ~history_result.raised
        /\ IF history_result.audit
           THEN /\ \E k \in 0..history_result.limit :
                       RoleAndContent(messages) =
                           RoleAndContent(
                               [i \in 1..Len(LastOf(OwnEntries(audit_logs,
                                                               history_result.user_id), k))
                                |-> LoadedMessage(LastOf(OwnEntries(audit_logs,
                                                     history_result.user_id), k)[i])])
                /\ history_result.loaded = Len(messages)
           ELSE /\ history_result.loaded = 0
                /\ messages = history_result.before


(***************************************************************************)
(* Claims about the database                                               *)
(***************************************************************************)
\* C28: log_message returns the id of the audit entry that this very call
\* created, and the ids of the audit entries increase strictly in the order
\* of their creation, whatever the interleaving of the log_message and
\* log_tool_execution calls on the shared connection.
C28_LogMessageReturnsOwnId ==
    /\ \A w \in DbWriters :
           db_task[w].pc = "returned" /\ db_task[w].op = "log_message"
               => db_task[w].returned = db_task[w].created
    /\ \A i, j \in 1..Len(db_audit_logs) :
           i < j => db_audit_logs[i].id < db_audit_logs[j].id


(***************************************************************************)
(* Claims about the life of the process                                    *)
(***************************************************************************)
Closed(step) == \E i \in 1..Len(lc_closed) : lc_closed[i] = step

\* C29: on the shutdown signal the bridge is stopped and its task cancelled,
\* then the API client closes, then the LLM adapter, then the database; the
\* task of the bridge no longer runs when these three are closed.
C29_ShutdownOrder ==
    /\ Closed("ha_api.close") =>
           /\ Closed("ha_ws.stop") /\ Closed("ws_task.cancel")
           /\ lc_bridge \notin BridgeRunning
    /\ Closed("llm.close") => Closed("ha_api.close")
    /\ Closed("database.close") => Closed("llm.close")

\* C30: when the controller is still unreachable after max_retries checks,
\* the process ends with a nonzero exit code; exit code 0 is only that of a
\* shutdown on the signal after a start that reached the controller.
C30_ExitCodes ==
    /\ lc_pc = "exited" /\ lc_attempts = max_retries => lc_exit_code # 0
    /\ lc_exit_code = 0 =>
           /\ lc_signal
           /\ lc_bridge # "not_started"
           /\ lc_closed = Cleanup


(***************************************************************************)
(* Claims about the adapters                                               *)
(***************************************************************************)
FinalChunks(chunks) == {i \in 1..Len(chunks) : chunks[i].is_final}

\* C31: every stream call that completes yields a finite sequence of chunks
\* with exactly one final chunk, which is the last chunk and carries the
\* final Response, for every adapter and every sequence of provider events,
\* also one that ends without an end-of-message event.
C31_OneFinalChunkLast ==
    stream_result.adapter # None =>
        /\ FinalChunks(stream_result.chunks) = {Len(stream_result.chunks)}
        /\ stream_result.chunks # <<>>
        /\ stream_result.chunks[Len(stream_result.chunks)].response # NoResponse


(***************************************************************************)
(* Claims about audit writes that fail                                     *)
(***************************************************************************)
\* a stretch's result without what only the audit store tells apart
WithoutAudit(S) == [S EXCEPT !.logs = <<>>, !.c.audit_failed = FALSE]

\* C32: an audit write that fails during ProcessMessage changes neither the
\* reply nor the history: at every await of the call, what the call does
\* next when the write fails is what it does when nothing was ever written
\* (apart from the audit table), and the call ends with its reply.
C32_AuditFailureChangesNothing ==
    \A t \in Calls :
        LET S == State(t)
            N == WithoutAudit(S)
            src == current_source
            uid == current_user_id
        IN  /\ call[t].pc = "idle" =>
                   \A ctx \in UserContexts, text \in UserTexts :
                       WithoutAudit(process_message(t, S, ctx, text, FALSE, now))
                       = WithoutAudit(process_message(t, N, ctx, text, TRUE, now))
            /\ call[t].pc = "log_user" =>
                   WithoutAudit(loop_next(t, S, src, uid, FALSE))
                   = WithoutAudit(loop_next(t, N, src, uid, TRUE))
            /\ call[t].pc = "llm" =>
                   \A response \in LLMResponses :
                       WithoutAudit(llm_returned(t, S, response, src, uid, FALSE, now))
                       = WithoutAudit(llm_returned(t, N, response, src, uid, TRUE, now))
            /\ call[t].pc = "tool" =>
                   \A api \in ApiOutcomes :
                       WithoutAudit(tool_returned(t, S, api, src, uid, FALSE, now))
                       = WithoutAudit(tool_returned(t, N, api, src, uid, TRUE, now))
            /\ call[t].pc = "callback" =>
                   WithoutAudit(callback_returned(t, S, src, uid, FALSE, now))
                   = WithoutAudit(callback_returned(t, N, src, uid, TRUE, now))
            /\ call[t].pc \in {"mode_log_user", "mode_log_assistant", "log_assistant"} =>
                   Truthy(call[t].reply)
            /\ call[t].pc \in Ended /\ call[t].audit_failed =>
                   \/ call[t].pc = "done" /\ Truthy(call[t].reply)
                   \/ call[t].provider_failed

\* a call whose audit writes failed has returned a reply after a tool turn
C32_Witness ==
    /\ call[1].pc = "done"
    /\ call[1].audit_failed
    /\ call[1].tool_turns > 0
    /\ audit_logs = <<>>
    /\ Len(messages) > 2


(***************************************************************************)
(* Claims about rate limiting and the operating mode                       *)
(***************************************************************************)
\* C33: whenever the mode is not YOLO, rate limiting is enforced: a tool of
\* the rate limiter's table called at its cap is not run, also after YOLO
\* has ended and also when the process was started in YOLO.
C33_LimitsEnforcedOutsideYolo ==
    /\ guard_result.tool_name \in AppTools
    /\ get_operation_type(guard_result.tool_name) # None
    /\ guard_result.mode # "yolo"
    => LET operation_type == get_operation_type(guard_result.tool_name)
       IN  guard_result.in_window[operation_type] >= OperationCap(operation_type)
               => guard_result.outcome # "running"


(***************************************************************************)
(* Claims about the pairing of tool calls and tool results                 *)
(***************************************************************************)
\* every tool result of msgs comes after an assistant message of msgs that
\* carries the tool call with its id
Paired(msgs) ==
    \A j \in 1..Len(msgs) :
        msgs[j].tool_call_id # NoId =>
            \E i \in 1..(j - 1) :
                /\ msgs[i].role = "assistant"
                /\ \E k \in 1..Len(msgs[i].tool_calls) :
                       msgs[i].tool_calls[k].id = msgs[j].tool_call_id

\* C34: whenever the history is passed to the LLM, each tool result in it is
\* preceded by an assistant message carrying the tool call with the same
\* id; trimming never leaves a tool result without its call.
C34_ResultsFollowTheirCalls ==
    [][\A t \in Calls :
          call'[t].pc = "llm" /\ call'[t].llm_calls # call[t].llm_calls
              => Paired(messages')]_vars


(***************************************************************************)
(* Claims about run() of the bridge                                        *)
(***************************************************************************)

\* C35: every event frame the controller sends on an authenticated
\* connection is dispatched to the handlers, also one that arrives while
\* the bridge waits for a subscription confirmation
C35_EveryEventFrameIsDispatched ==
    \A i \in DOMAIN br_events : br_events[i].delivered

\* C36: whenever the bridge is in its listen loop on a connection, both
\* subscriptions have been confirmed on that connection
C36_ListeningMeansSubscribed ==
    br_pc \in {"listening", "dispatching"}
        => br_confirmed = {MessageEvents[1], MessageEvents[2]}

OpenSockets == {i \in DOMAIN br_sockets : br_sockets[i] = "open"}

\* C37: the socket of an attempt is closed before the next attempt starts,
\* so the bridge never holds more than one open socket
C37_OneOpenSocket ==
    /\ br_pc = "connect" => OpenSockets = {}
    /\ Cardinality(OpenSockets) <= 1


\* C40: once stop() has been called, run() starts no further connection
\* attempt and returns, whatever it was awaiting; a second stop() changes
\* nothing
C40_StopEndsRun ==
    /\ [](br_stops > 0 => br_attempts = br_at_stop.attempts)
    /\ (br_stops > 0 ~> br_pc = "returned")
    /\ [][br_stops > 0 /\ br_stops' > br_stops
            => UNCHANGED <<br_pc, br_running, br_sockets, br_ws, br_attempts>>]_vars

C40_Witness ==
    /\ br_stops = MaxStops
    /\ br_at_stop.pc = "sleeping"
    /\ br_pc = "returned"


(***************************************************************************)
(* Claims about the tool calls of one response                             *)
(***************************************************************************)

\* the batch of a tool call id: the call and the turn of its loop
BatchOf(id) == <<id[1], id[2]>>

\* the message is the assistant message or a result message of the batch
InBatch(m, b) ==
    IF m.tool_calls # <<>> THEN BatchOf(m.tool_calls[1].id) = b
    ELSE IF m.tool_call_id # NoId THEN BatchOf(m.tool_call_id) = b
    ELSE FALSE

\* _execute_tool_calls of the batch has not returned yet
InProgress(b) ==
    /\ call[b[1]].tool_calls # <<>>
    /\ BatchOf(Head(call[b[1]].tool_calls).id) = b

\* what the execution of the tool call did
ExecutedAs(id) ==
    {i \in DOMAIN call[id[1]].executed : call[id[1]].executed[i].id = id}

BatchMessages(b) == SelectSeq(messages, LAMBDA m : InBatch(m, b))

\* C38: for a response with tool calls t1..tn the history holds, of that
\* response, one assistant message with the calls and after it n result
\* messages in the order of the calls, the i-th with the id of ti and the
\* string its execution gave; an unknown tool gives its error string
C38_OneResultPerToolCallInOrder ==
    \A p \in DOMAIN messages :
        LET m == messages[p]
            tcs == m.tool_calls
            b == BatchOf(tcs[1].id)
            of_batch == BatchMessages(b)
        IN  tcs # <<>> /\ ~InProgress(b) =>
                /\ Len(of_batch) = Len(tcs) + 1
                /\ of_batch[1] = m
                /\ \A i \in DOMAIN tcs :
                       /\ of_batch[i + 1].tool_call_id = tcs[i].id
                       /\ of_batch[i + 1].tool_calls = <<>>
                       /\ Cardinality(ExecutedAs(tcs[i].id)) = 1
                       /\ \A k \in ExecutedAs(tcs[i].id) :
                              LET e == call[b[1]].executed[k]
                              IN  /\ e.name = tcs[i].name
                                  /\ of_batch[i + 1].content = e.ret
                                  /\ of_batch[i + 1].is_error = e.is_error
                       /\ ~has(tcs[i].name) =>
                              of_batch[i + 1].content =
                                  ErrorPrefix \o <<" Unknown tool '", tcs[i].name, "'">>

\* a finished batch of two calls: the first is for an unknown tool, the
\* second succeeded
C38_Witness ==
    \E p \in DOMAIN messages :
        LET tcs == messages[p].tool_calls
        IN  /\ Len(tcs) = 2
            /\ ~InProgress(BatchOf(tcs[1].id))
            /\ ~has(tcs[1].name)
            /\ \E k \in ExecutedAs(tcs[2].id) :
                   /\ call[tcs[2].id[1]].executed[k].success
                   /\ ~call[tcs[2].id[1]].executed[k].is_error


\* C39: when process_message returns a reply of the planning path, the last
\* entry of the history is an assistant message with that reply as its text
C39_HistoryEndsWithReply ==
    [][\A t \in Calls :
           call[t].pc = "log_assistant" /\ call'[t].pc = "done" =>
               /\ messages' # <<>>
               /\ messages'[Len(messages')].role = "assistant"
               /\ messages'[Len(messages')].content = call'[t].reply]_vars

====
